---- MODULE Spec2Model ----
(***************************************************************************)
(* Model of the IEEE 802.15.4e dissector (packet-ieee802154e.c, kept in    *)
(* dissector-development-wip.md) : the short <-> extended Address Map and  *)
(* the command sub-dissectors that maintain it.                            *)
(*                                                                         *)
(* The Address Map is two GLib hash tables (short_table, long_table) whose *)
(* values are pointers to ieee802154e_map_rec records allocated in file    *)
(* scope.  A pointer is modelled as the index of the record in the arena   *)
(* `recs` (NULL = 0); a hash table is a function from keys to indices.     *)
(***************************************************************************)
EXTENDS Integers, Sequences, FiniteSets, TLC

VARIABLES
    initialized,   \* FALSE until proto_init_ieee802154e has created the tables
    static_addrs,  \* the static address UAT (static_addrs, num_static_addrs)
    recs,          \* arena of ieee802154e_map_rec, in allocation order
    rec_key,       \* history: rec_key[i] = short key passed to the call that allocated recs[i]
    short_table,   \* ieee802154e_map.short_table : short key -> record
    long_table,    \* ieee802154e_map.long_table  : extended address -> record
    frames,        \* frames of the capture dissected so far (frame i has fd->num = i)
    last           \* the operation performed by the last step, with its result

vars == <<initialized, static_addrs, recs, rec_key, short_table, long_table, frames, last>>

(***************************************************************************)
(* Bounds of the model.                                                    *)
(***************************************************************************)
MaxRecs   == 3    \* records allocated per session
MaxStatic == 2    \* entries of the static address UAT
MaxFrames == 2    \* frames of a capture

(***************************************************************************)
(* Program constants.                                                      *)
(***************************************************************************)
IEEE802154_NO_ADDR16     == 65534
IEEE802154_BCAST_ADDR    == 65535
IEEE802154_BCAST_PAN     == 65535
IEEE802154_USER_MAPPING  == 0
NULL                     == 0

IEEE802154_FCF_DATA      == 1
IEEE802154_FCF_CMD       == 3

IEEE802154_FCF_ADDR_NONE  == 0
IEEE802154_FCF_ADDR_SHORT == 2
IEEE802154_FCF_ADDR_EXT   == 3
AddrModeReserved          == 1   \* the remaining value of the 2-bit mode field

IEEE802154_CMD_ASRSP      == 2
IEEE802154_CMD_DISAS      == 3
IEEE802154_CMD_COORD_REAL == 8

IEEE802154_CMD_ASRSP_AS_SUCCESS == 0
IEEE802154_CMD_ASRSP_PAN_FULL   == 1

ieee802154e_user == "User"
current_proto    == "IEEE 802.15.4e"

(***************************************************************************)
(* Value domains the inputs are drawn from.                                *)
(***************************************************************************)
ExtAddrs   == {10, 11}

\* ieee802154e_short_addr { pan, addr }
ieee802154e_short_addr(pan, addr) == <<pan, addr>>

\* ieee802154e_map_rec
ieee802154e_map_rec(proto, start_fnum, end_fnum, addr64) ==
    [proto |-> proto, start_fnum |-> start_fnum, end_fnum |-> end_fnum, addr64 |-> addr64]

\* The Address Map as one value: the arena and the two tables.
MapOf(r, k, s, l) == [recs |-> r, rec_key |-> k, short_table |-> s, long_table |-> l]

EmptyTable == [k \in {} |-> NULL]
EmptyMap   == MapOf(<<>>, <<>>, EmptyTable, EmptyTable)
CurMap     == MapOf(recs, rec_key, short_table, long_table)

(***************************************************************************)
(* GLib hash table operations, with the key-equal functions of the source  *)
(* (two short keys are equal iff pan and addr are; two long keys iff the   *)
(* 64-bit addresses are).                                                  *)
(***************************************************************************)
g_hash_table_lookup(table, key) ==
    IF key \in DOMAIN table THEN table[key] ELSE NULL

g_hash_table_lookup_extended(table, key) == key \in DOMAIN table

g_hash_table_insert(table, key, value) ==
    [k \in (DOMAIN table) \cup {key} |-> IF k = key THEN value ELSE table[k]]

(***************************************************************************)
(* g_hash_table_insert(table, &old_key, rec): the key handed to the table  *)
(* is the address of the local variable old_key, so the table hashes and   *)
(* compares the bytes of the pointer stored there, not the key it points   *)
(* to, and keeps a pointer into a dead stack frame.  What those bytes      *)
(* compare equal to depends on the build.  Either they equal a key that is *)
(* already in the table, whichever it is, and that key's value is          *)
(* replaced; or they equal none, and the record goes under a stray key     *)
(* that no lookup of a real key reaches.  Every outcome is kept.           *)
(***************************************************************************)
StrayShortKey == <<-1, -1>>
StrayLongKey  == -1

InsertAtOldKeyAddress(table, stray, value) ==
    {g_hash_table_insert(table, k, value) : k \in (DOMAIN table) \cup {stray}}

(***************************************************************************)
(* Decision points of ieee802154e_addr_update.                             *)
(***************************************************************************)
\* (variant: the comparison never succeeds)
MappingMatches_never(rec, long_addr) == FALSE

\* if ( p_map_rec->addr64 == long_addr ) : the mapping already matches
MappingMatches(rec, long_addr) == rec.addr64 = long_addr

\* p_map_rec->end_fnum = fnum : mark the current mapping record invalid
MarkInvalid(rs, p_map_rec, fnum) == [rs EXCEPT ![p_map_rec].end_fnum = fnum]

\* wmem_new + the four field assignments : the new mapping record
NewMapRec(proto, fnum, long_addr) == ieee802154e_map_rec(proto, fnum, 0, long_addr)

\* link the new record to the short table
LinkShort(table, addr16, p_map_rec) ==
    IF g_hash_table_lookup_extended(table, addr16)
    THEN InsertAtOldKeyAddress(table, StrayShortKey, p_map_rec)
    ELSE {g_hash_table_insert(table, addr16, p_map_rec)}

\* link the new record to the long table
LinkLong(table, long_addr, p_map_rec) ==
    IF g_hash_table_lookup_extended(table, long_addr)
    THEN InsertAtOldKeyAddress(table, StrayLongKey, p_map_rec)
    ELSE {g_hash_table_insert(table, long_addr, p_map_rec)}

(***************************************************************************)
(* ieee802154e_addr_update: the set of outcomes [map, ret] of one call     *)
(* (more than one only where a record is inserted at &old_key).            *)
(***************************************************************************)
ieee802154e_addr_update(m, short_addr, pan, long_addr, proto, fnum) ==
    LET addr16    == ieee802154e_short_addr(pan, short_addr)
        p_map_rec == g_hash_table_lookup(m.short_table, addr16)
    IN  IF p_map_rec # NULL /\ MappingMatches(m.recs[p_map_rec], long_addr)
        THEN {[map |-> m, ret |-> p_map_rec]}
        ELSE LET marked == IF p_map_rec # NULL
                           THEN MarkInvalid(m.recs, p_map_rec, fnum)
                           ELSE m.recs
                 new    == Len(m.recs) + 1
                 rs     == Append(marked, NewMapRec(proto, fnum, long_addr))
                 ks     == Append(m.rec_key, addr16)
             IN  {[map |-> MapOf(rs, ks, s, l), ret |-> new] :
                     s \in LinkShort(m.short_table, addr16, new),
                     l \in LinkLong(m.long_table, long_addr, new)}

(***************************************************************************)
(* ieee802154e_short_addr_invalidate / ieee802154e_long_addr_invalidate.   *)
(***************************************************************************)
ieee802154e_short_addr_invalidate(m, short_addr, pan, fnum) ==
    LET map_rec == g_hash_table_lookup(m.short_table, ieee802154e_short_addr(pan, short_addr))
    IN  IF map_rec # NULL
        THEN [map |-> [m EXCEPT !.recs[map_rec].end_fnum = fnum], ret |-> TRUE]
        ELSE [map |-> m, ret |-> FALSE]

\* (variant: only a record whose end_fnum is 0 is marked)
ieee802154e_long_addr_invalidate_open_only(m, long_addr, fnum) ==
    LET map_rec == g_hash_table_lookup(m.long_table, long_addr)
    IN  IF map_rec # NULL /\ m.recs[map_rec].end_fnum = 0
        THEN [map |-> [m EXCEPT !.recs[map_rec].end_fnum = fnum], ret |-> TRUE]
        ELSE [map |-> m, ret |-> FALSE]

ieee802154e_long_addr_invalidate(m, long_addr, fnum) ==
    LET map_rec == g_hash_table_lookup(m.long_table, long_addr)
    IN  IF map_rec # NULL
        THEN [map |-> [m EXCEPT !.recs[map_rec].end_fnum = fnum], ret |-> TRUE]
        ELSE [map |-> m, ret |-> FALSE]

(***************************************************************************)
(* The static address UAT and proto_init_ieee802154e.                      *)
(***************************************************************************)
\* pntoh64: the 8 bytes of the UAT buffer, most significant first, as a guint64
RECURSIVE pntoh64_from(_, _)
pntoh64_from(bytes, acc) ==
    IF bytes = <<>> THEN acc ELSE pntoh64_from(Tail(bytes), acc * 256 + Head(bytes))

pntoh64(bytes) == pntoh64_from(bytes, 0)

\* static_addr_t entries accepted by addr_uat_update_cb
Eui64Of(b) == <<0, 0, 0, 0, 0, 0, 0, b>>

StaticEntries ==
    {[addr16 |-> 1, pan |-> 1, eui64 |-> Eui64Of(10)],
     [addr16 |-> 1, pan |-> 1, eui64 |-> Eui64Of(11)]}

\* ... and one more, for another short address
\* the static mapping of the device of FramesReassoc
StaticEntriesReassoc == {[addr16 |-> 1, pan |-> 1, eui64 |-> Eui64Of(10)]}

StaticEntriesReset ==
    StaticEntries \cup {[addr16 |-> 2, pan |-> 1, eui64 |-> Eui64Of(11)]}

addr_uat_update_cb(e) ==
    /\ e.addr16 < IEEE802154_NO_ADDR16
    /\ e.pan < IEEE802154_BCAST_PAN
    /\ Len(e.eui64) = 8

RECURSIVE SeqsUpTo(_, _)
SeqsUpTo(S, n) ==
    IF n = 0 THEN {<<>>}
    ELSE LET shorter == SeqsUpTo(S, n - 1)
         IN  shorter \cup {Append(q, x) : q \in shorter, x \in S}

\* the loop of proto_init_ieee802154e from entry i on, from each map of ms
RECURSIVE LoadStatic(_, _, _, _)
LoadStatic(ms, addrs, i, num) ==
    IF i > num THEN ms
    ELSE LoadStatic(
            UNION {{o.map : o \in ieee802154e_addr_update(m, addrs[i].addr16, addrs[i].pan,
                                    pntoh64(addrs[i].eui64), ieee802154e_user,
                                    IEEE802154_USER_MAPPING)} : m \in ms},
            addrs, i + 1, num)

\* num_static_addrs
num_static_addrs(addrs) == Len(addrs)

\* (variant: the tables of the closed file are kept)
proto_init_ieee802154e_keeping_tables(addrs) ==
    LoadStatic({CurMap}, addrs, 1, num_static_addrs(addrs))

\* the maps proto_init_ieee802154e can leave: both tables destroyed and created
\* anew, the records of the closed file released, the static entries loaded
proto_init_ieee802154e(addrs) == LoadStatic({EmptyMap}, addrs, 1, num_static_addrs(addrs))

(***************************************************************************)
(* Frames.  A frame is given by its fields as they stand on the wire; the  *)
(* fields that the addressing modes leave out are 0.  decrypt_status is    *)
(* the status dissect_ieee802154e_decrypt returns for a frame with the     *)
(* security bit set; body_len is the captured length of the command body.  *)
(* The source PAN and address, which only the hint lookup uses, are those  *)
(* of the device with short address 1 of PAN 1.  fcs_ok is the result of   *)
(* the FCS check; the preference ieee802154e_fcs_ok is set, as registered. *)
(***************************************************************************)
Frame(frame_type, security_enable, decrypt_status, dst_addr_mode, dst_pan, dst_addr, src_addr_mode, command_id, body_len, short_addr, status) ==
    [frame_type |-> frame_type, security_enable |-> security_enable,
     decrypt_status |-> decrypt_status,
     dst_addr_mode |-> dst_addr_mode, dst_pan |-> dst_pan, dst_addr |-> dst_addr,
     src_addr_mode |-> src_addr_mode, src_pan |-> 1, src_addr |-> 1, command_id |-> command_id,
     body_len |-> body_len, short_addr |-> short_addr, status |-> status, fcs_ok |-> TRUE]

\* the frame received with a checksum that does not match
BadFcs(f) == [f EXCEPT !.fcs_ok = FALSE]

DECRYPT_PACKET_SUCCEEDED == "DECRYPT_PACKET_SUCCEEDED"
DECRYPT_NOT_ENCRYPTED    == "DECRYPT_NOT_ENCRYPTED"
DECRYPT_PACKET_NO_KEY    == "DECRYPT_PACKET_NO_KEY"

\* bytes of the command body each sub-dissector reads before it touches the map
AssocRspBodyLen == 3
DisassocBodyLen == 1
RealignBodyLen  == 7

PlainCmd(dst_addr_mode, dst_pan, dst_addr, command_id, body_len, short_addr, status) ==
    Frame(IEEE802154_FCF_CMD, FALSE, DECRYPT_PACKET_SUCCEEDED, dst_addr_mode, dst_pan, dst_addr,
          IEEE802154_FCF_ADDR_EXT, command_id, body_len, short_addr, status)

AssocRsp(dst_addr, short_addr, status) ==
    PlainCmd(IEEE802154_FCF_ADDR_EXT, 1, dst_addr, IEEE802154_CMD_ASRSP, AssocRspBodyLen, short_addr, status)

\* Association Responses that assign short address 1 of PAN 1 to an extended address
AssocRspFrames == {AssocRsp(d, 1, IEEE802154_CMD_ASRSP_AS_SUCCESS) : d \in ExtAddrs}

\* Association Responses with a sentinel address, a failure status, a body cut
\* short by the capture, a payload that is not decrypted, a reserved source mode
AssocRspOddFrames ==
    {AssocRsp(10, s, IEEE802154_CMD_ASRSP_AS_SUCCESS) : s \in {IEEE802154_NO_ADDR16, IEEE802154_BCAST_ADDR}}
    \cup {AssocRsp(11, 1, IEEE802154_CMD_ASRSP_PAN_FULL),
          PlainCmd(IEEE802154_FCF_ADDR_EXT, 1, 11, IEEE802154_CMD_ASRSP, AssocRspBodyLen - 1, 1,
                   IEEE802154_CMD_ASRSP_AS_SUCCESS),
          Frame(IEEE802154_FCF_CMD, TRUE, DECRYPT_PACKET_NO_KEY, IEEE802154_FCF_ADDR_EXT, 1, 11,
                IEEE802154_FCF_ADDR_EXT, IEEE802154_CMD_ASRSP, AssocRspBodyLen, 1,
                IEEE802154_CMD_ASRSP_AS_SUCCESS),
          Frame(IEEE802154_FCF_CMD, FALSE, DECRYPT_PACKET_SUCCEEDED, IEEE802154_FCF_ADDR_EXT, 1, 11,
                AddrModeReserved, IEEE802154_CMD_ASRSP, AssocRspBodyLen, 1,
                IEEE802154_CMD_ASRSP_AS_SUCCESS)}

\* Disassociation Notifications to an extended and to a short destination
DisassocFrames ==
    {PlainCmd(IEEE802154_FCF_ADDR_EXT, 1, 10, IEEE802154_CMD_DISAS, DisassocBodyLen, 0, 0),
     PlainCmd(IEEE802154_FCF_ADDR_SHORT, 1, 1, IEEE802154_CMD_DISAS, DisassocBodyLen, 0, 0)}

\* ... with no destination, and with the reason byte cut off
DisassocOddFrames ==
    {PlainCmd(IEEE802154_FCF_ADDR_NONE, 0, 0, IEEE802154_CMD_DISAS, DisassocBodyLen, 0, 0),
     PlainCmd(IEEE802154_FCF_ADDR_EXT, 1, 10, IEEE802154_CMD_DISAS, DisassocBodyLen - 1, 0, 0)}

Realign(dst_addr_mode, dst_addr, body_len, short_addr) ==
    PlainCmd(dst_addr_mode, 1, dst_addr, IEEE802154_CMD_COORD_REAL, body_len, short_addr, 0)

RealignFrames ==
    {Realign(IEEE802154_FCF_ADDR_EXT, d, RealignBodyLen, 1) : d \in ExtAddrs}

RealignOddFrames ==
    {Realign(IEEE802154_FCF_ADDR_EXT, 10, RealignBodyLen, s) : s \in {IEEE802154_NO_ADDR16, IEEE802154_BCAST_ADDR}}
    \cup {Realign(IEEE802154_FCF_ADDR_SHORT, IEEE802154_BCAST_ADDR, RealignBodyLen, 1),
          Realign(IEEE802154_FCF_ADDR_EXT, 11, RealignBodyLen - 1, 1)}

DataFrames ==
    {Frame(IEEE802154_FCF_DATA, FALSE, DECRYPT_PACKET_SUCCEEDED, IEEE802154_FCF_ADDR_SHORT, 1, 1,
           IEEE802154_FCF_ADDR_SHORT, 0, 0, 0, 0)}

\* The captures explored: each is made of the frames of one of these sets.
Frames         == AssocRspFrames \cup DisassocFrames \cup DataFrames
    \cup {AssocRsp(10, IEEE802154_BCAST_ADDR, IEEE802154_CMD_ASRSP_AS_SUCCESS),
          Realign(IEEE802154_FCF_ADDR_EXT, 11, RealignBodyLen, 1)}
FramesAssocRsp == AssocRspFrames \cup AssocRspOddFrames \cup DisassocFrames
FramesDisassoc == AssocRspFrames \cup DisassocFrames \cup DisassocOddFrames
FramesRealign  == RealignFrames \cup RealignOddFrames \cup DisassocFrames
FramesReset    == AssocRspFrames
    \cup {PlainCmd(IEEE802154_FCF_ADDR_EXT, 1, 10, IEEE802154_CMD_DISAS, DisassocBodyLen, 0, 0)}

\* the frames a mapping is learned from, sent to an extended and to a short
\* destination address
FramesLearn    ==
    AssocRspFrames \cup RealignFrames
    \cup {PlainCmd(IEEE802154_FCF_ADDR_SHORT, 1, 2, IEEE802154_CMD_ASRSP, AssocRspBodyLen, 1,
                   IEEE802154_CMD_ASRSP_AS_SUCCESS),
          Realign(IEEE802154_FCF_ADDR_SHORT, IEEE802154_BCAST_ADDR, RealignBodyLen, 1)}

\* the frames that change the map, received with a right and a wrong FCS,
\* and a Data frame with a wrong FCS
FramesBadFcs   ==
    LET changing == AssocRspFrames \cup DisassocFrames \cup RealignFrames
    IN  changing \cup {BadFcs(f) : f \in changing \cup DataFrames}

\* one device: its association, and its disassociation by either address
FramesReassoc  ==
    {AssocRsp(10, 1, IEEE802154_CMD_ASRSP_AS_SUCCESS),
     PlainCmd(IEEE802154_FCF_ADDR_EXT, 1, 10, IEEE802154_CMD_DISAS, DisassocBodyLen, 0, 0),
     PlainCmd(IEEE802154_FCF_ADDR_SHORT, 1, 1, IEEE802154_CMD_DISAS, DisassocBodyLen, 0, 0)}

(***************************************************************************)
(* Addressing fields of the ieee802154e_packet (allocated zeroed): a field *)
(* is read from the frame only under the addressing mode that carries it.  *)
(***************************************************************************)
packet_dst_pan(f) ==
    IF f.dst_addr_mode \in {IEEE802154_FCF_ADDR_SHORT, IEEE802154_FCF_ADDR_EXT} THEN f.dst_pan ELSE 0

packet_dst16(f) == IF f.dst_addr_mode = IEEE802154_FCF_ADDR_SHORT THEN f.dst_addr ELSE 0

packet_dst64(f) == IF f.dst_addr_mode = IEEE802154_FCF_ADDR_EXT THEN f.dst_addr ELSE 0

\* "Invalid Destination/Source Address Mode. Abort Dissection."
InvalidAddrMode(mode) ==
    mode \notin {IEEE802154_FCF_ADDR_SHORT, IEEE802154_FCF_ADDR_EXT, IEEE802154_FCF_ADDR_NONE}

(***************************************************************************)
(* Outcome of a (sub-)dissection: the map it leaves, the sub-dissector     *)
(* whose Address Map step was reached (sub), and the map call it made.     *)
(***************************************************************************)
NoCall == [fn |-> "none"]

Outcome(m, sub, call) == [map |-> m, sub |-> sub, call |-> call]

UpdateCall(m, short_addr, pan, long_addr, fnum, ret) ==
    [fn |-> "update", short_addr |-> short_addr, pan |-> pan, long_addr |-> long_addr,
     fnum |-> fnum, ret |-> ret,
     found |-> g_hash_table_lookup(m.short_table, ieee802154e_short_addr(pan, short_addr))]

\* the condition under which dissect_ieee802154e_assoc_rsp updates the address table
AssocRspUpdates(status, short_addr) ==
    (status = IEEE802154_CMD_ASRSP_AS_SUCCESS) /\ (short_addr # IEEE802154_NO_ADDR16)

dissect_ieee802154e_assoc_rsp(m, f, fnum, visited) ==
    IF f.body_len < AssocRspBodyLen
    THEN {Outcome(m, "exception", NoCall)}
    ELSE IF AssocRspUpdates(f.status, f.short_addr)
         THEN {Outcome(o.map, "assoc_rsp",
                       UpdateCall(m, f.short_addr, packet_dst_pan(f), packet_dst64(f), fnum, o.ret)) :
                  o \in ieee802154e_addr_update(m, f.short_addr, packet_dst_pan(f), packet_dst64(f),
                                                 current_proto, fnum)}
         ELSE {Outcome(m, "assoc_rsp", NoCall)}

\* (variant: the visited flag is not consulted)
DisassocTouchesMap_always(visited) == TRUE

\* if (!pinfo->fd->flags.visited)
DisassocTouchesMap(visited) == ~visited

dissect_ieee802154e_disassoc(m, f, fnum, visited) ==
    IF f.body_len < DisassocBodyLen
    THEN {Outcome(m, "exception", NoCall)}
    ELSE IF ~DisassocTouchesMap(visited)
         THEN {Outcome(m, "disassoc", NoCall)}
         ELSE IF f.dst_addr_mode = IEEE802154_FCF_ADDR_EXT
              THEN LET o == ieee802154e_long_addr_invalidate(m, packet_dst64(f), fnum)
                   IN  {Outcome(o.map, "disassoc",
                                [fn |-> "invalidate_long", long_addr |-> packet_dst64(f),
                                 fnum |-> fnum, ret |-> o.ret,
                                 found |-> g_hash_table_lookup(m.long_table, packet_dst64(f))])}
              ELSE IF f.dst_addr_mode = IEEE802154_FCF_ADDR_SHORT
                   THEN LET o == ieee802154e_short_addr_invalidate(m, packet_dst16(f), packet_dst_pan(f), fnum)
                        IN  {Outcome(o.map, "disassoc",
                                     [fn |-> "invalidate_short", short_addr |-> packet_dst16(f),
                                      pan |-> packet_dst_pan(f), fnum |-> fnum, ret |-> o.ret,
                                      found |-> g_hash_table_lookup(m.short_table,
                                          ieee802154e_short_addr(packet_dst_pan(f), packet_dst16(f)))])}
                   ELSE {Outcome(m, "disassoc", NoCall)}

\* the condition under which dissect_ieee802154e_realign updates the address table
RealignUpdates(short_addr, dst_addr_mode) ==
    (short_addr # IEEE802154_NO_ADDR16) /\ (dst_addr_mode = IEEE802154_FCF_ADDR_EXT)

dissect_ieee802154e_realign(m, f, fnum, visited) ==
    IF f.body_len < RealignBodyLen
    THEN {Outcome(m, "exception", NoCall)}
    ELSE IF RealignUpdates(f.short_addr, f.dst_addr_mode)
         THEN {Outcome(o.map, "realign",
                       UpdateCall(m, f.short_addr, packet_dst_pan(f), packet_dst64(f), fnum, o.ret)) :
                  o \in ieee802154e_addr_update(m, f.short_addr, packet_dst_pan(f), packet_dst64(f),
                                                 current_proto, fnum)}
         ELSE {Outcome(m, "realign", NoCall)}

dissect_ieee802154e_command(m, f, fnum, visited) ==
    CASE f.command_id = IEEE802154_CMD_ASRSP      -> dissect_ieee802154e_assoc_rsp(m, f, fnum, visited)
      [] f.command_id = IEEE802154_CMD_DISAS      -> dissect_ieee802154e_disassoc(m, f, fnum, visited)
      [] f.command_id = IEEE802154_CMD_COORD_REAL -> dissect_ieee802154e_realign(m, f, fnum, visited)
      [] OTHER -> {Outcome(m, "none", NoCall)}

\* the statuses after which dissect_ieee802154e_common goes on to sub-dissection
DecryptLetsThrough(f) ==
    f.decrypt_status \in {DECRYPT_PACKET_SUCCEEDED, DECRYPT_NOT_ENCRYPTED}

(***************************************************************************)
(* dissect_ieee802154e_common, as far as the Address Map is concerned.     *)
(* Of the cases of the frame type switch only the Data case tests fcs_ok   *)
(* (PayloadToDataDissector); the Command case calls                        *)
(* dissect_ieee802154e_command whatever it is.                             *)
(***************************************************************************)
\* case IEEE802154_FCF_DATA: if ((!fcs_ok && ieee802154e_fcs_ok) || ...)
PayloadToDataDissector(f) == f.frame_type = IEEE802154_FCF_DATA /\ ~f.fcs_ok

dissect_ieee802154e_common(m, f, fnum, visited) ==
    IF InvalidAddrMode(f.dst_addr_mode) \/ InvalidAddrMode(f.src_addr_mode)
    THEN {Outcome(m, "abort", NoCall)}
    ELSE IF f.security_enable /\ ~DecryptLetsThrough(f)
         THEN {Outcome(m, "undecrypted", NoCall)}
         ELSE IF f.frame_type = IEEE802154_FCF_CMD
              THEN dissect_ieee802154e_command(m, f, fnum, visited)
              ELSE IF PayloadToDataDissector(f)
                   THEN {Outcome(m, "data", NoCall)}
                   ELSE {Outcome(m, "none", NoCall)}

\* ieee_hints->map_rec as the first pass leaves it: the record found under
\* the short source address, NULL when none is looked up or found
HintLookup(table, f) ==
    IF /\ ~InvalidAddrMode(f.dst_addr_mode)
       /\ f.src_addr_mode = IEEE802154_FCF_ADDR_SHORT
       /\ f.src_addr # IEEE802154_BCAST_ADDR
    THEN g_hash_table_lookup(table, ieee802154e_short_addr(f.src_pan, f.src_addr))
    ELSE NULL

(***************************************************************************)
(* dissect_ieee802154e_common, field by field.  A frame on the wire (w) is *)
(* given by its FCF, the values of the fields that follow it, its reported *)
(* length (tvb_reported_length) and its captured length (tvb_length).  The *)
(* dissection is a record d: the cursor (offset), the steps performed so   *)
(* far, the packet structure, and what was reported.  A tvb accessor       *)
(* throws when it is asked for bytes past the captured data; an exception  *)
(* thrown outside the TRY block leaves dissect_ieee802154e_common (raised).*)
(***************************************************************************)
IEEE802154_VERSION_2003 == 0
IEEE802154_VERSION_2006 == 1
IEEE802154_VERSION_2012 == 2
IEEE802154_FCF_BEACON   == 0
IEEE802154_FCS_LEN      == 2

\* (x >> shift) & (2^width - 1)
Bits(x, shift, width) == (x \div (2 ^ shift)) % (2 ^ width)

\* wmem_new0(wmem_packet_scope(), ieee802154e_packet)
ieee802154e_packet ==
    [version |-> 0, frame_type |-> 0, dst_addr_mode |-> 0, src_addr_mode |-> 0,
     security_enable |-> FALSE, intra_pan |-> FALSE, seqnr_surpression |-> FALSE,
     ielist_present |-> FALSE, seqno |-> 0, dst_pan |-> 0, src_pan |-> 0,
     dst16 |-> 0, dst64 |-> 0, src16 |-> 0, src64 |-> 0,
     security_level |-> 0, key_id_mode |-> 0, command_id |-> 0]

\* the dissection at entry of dissect_ieee802154e_common
StartDissection ==
    [offset |-> 0, steps |-> <<>>, done |-> FALSE, raised |-> FALSE,
     addressed |-> FALSE, packet |-> ieee802154e_packet, fcs_ok |-> TRUE, expert |-> {},
     seqno_length |-> 0, aux_length |-> 0, payload_offset |-> 0, status |-> "none", to_fcs |-> FALSE, fcs_field |-> "none", bad_fcs_note |-> FALSE,
     mic_lengths |-> <<>>, panid_keys |-> <<>>]

\* tvb_bytes_exist(tvb, offset, length)
tvb_bytes_exist(w, offset, length) == offset + length <= w.captured

\* a step that reads `length` bytes at the cursor with a tvb_get_ accessor and
\* advances the cursor: the accessor throws when the bytes are not captured
ReadField(w, d, step, length, pkt) ==
    IF tvb_bytes_exist(w, d.offset, length)
    THEN [d EXCEPT !.offset = d.offset + length, !.steps = Append(d.steps, step), !.packet = pkt]
    ELSE [d EXCEPT !.done = TRUE, !.raised = TRUE, !.steps = Append(d.steps, "throw")]

\* the flags of the Frame Control Field
dissect_ieee802154e_fcf(w, d) ==
    ReadField(w, d, "fcf", 2,
        [d.packet EXCEPT
            !.frame_type        = Bits(w.fcf, 0, 3),
            !.security_enable   = Bits(w.fcf, 3, 1) # 0,
            !.intra_pan         = Bits(w.fcf, 6, 1) # 0,
            !.seqnr_surpression = Bits(w.fcf, 8, 1) # 0,
            !.ielist_present    = Bits(w.fcf, 9, 1) # 0,
            !.dst_addr_mode     = Bits(w.fcf, 10, 2),
            !.version           = Bits(w.fcf, 12, 2),
            !.src_addr_mode     = Bits(w.fcf, 14, 2)])

\* if(!packet->seqnr_surpression)
SeqnoPresent(packet) == ~packet.seqnr_surpression

\* SEQUENCE NUMBER; seqno_length is how far it moved the cursor
SequenceNumber(w, d) ==
    LET q == IF d.done \/ ~SeqnoPresent(d.packet) THEN d
             ELSE ReadField(w, d, "seqno", 1, [d.packet EXCEPT !.seqno = w.seqno])
    IN  [q EXCEPT !.seqno_length = q.offset - d.offset]

AddrPresent(mode) == mode \in {IEEE802154_FCF_ADDR_SHORT, IEEE802154_FCF_ADDR_EXT}

\* (variant: the expert info is added and the dissection goes on)
AbortDissection_goes_on(d, info) ==
    [d EXCEPT !.expert = d.expert \cup {info}, !.steps = Append(d.steps, "abort")]

\* "Abort Dissection": expert info, then return
AbortDissection(d, info) ==
    [d EXCEPT !.done = TRUE, !.expert = d.expert \cup {info}, !.steps = Append(d.steps, "abort")]

\* ADDRESSING FIELDS: destination PAN and address
DestinationAddressing(w, d) ==
    IF d.done THEN d
    ELSE LET mode == d.packet.dst_addr_mode
             p    == IF AddrPresent(mode)
                     THEN ReadField(w, d, "dst_pan", 2, [d.packet EXCEPT !.dst_pan = w.dst_pan])
                     ELSE d
         IN  IF p.done THEN p
             ELSE IF mode = IEEE802154_FCF_ADDR_SHORT
                  THEN ReadField(w, p, "dst16", 2, [p.packet EXCEPT !.dst16 = w.dst_addr])
                  ELSE IF mode = IEEE802154_FCF_ADDR_EXT
                       THEN ReadField(w, p, "dst64", 8, [p.packet EXCEPT !.dst64 = w.dst_addr])
                       ELSE IF mode # IEEE802154_FCF_ADDR_NONE
                            THEN AbortDissection(p, "ei_ieee802154e_dst")
                            ELSE p

\* (variant: the intra-PAN flag alone decides)
SrcPanPresent_intra_only(packet) == AddrPresent(packet.src_addr_mode) /\ ~packet.intra_pan

\* the source PAN is present in the frame
SrcPanPresent(packet) ==
    /\ AddrPresent(packet.src_addr_mode)
    /\ (packet.dst_addr_mode = IEEE802154_FCF_ADDR_NONE \/ ~packet.intra_pan)

\* ADDRESSING FIELDS: source PAN
SourcePan(w, d) ==
    IF d.done THEN d
    ELSE IF SrcPanPresent(d.packet)
         THEN ReadField(w, d, "src_pan", 2, [d.packet EXCEPT !.src_pan = w.src_pan])
         ELSE IF d.packet.dst_addr_mode # IEEE802154_FCF_ADDR_NONE
              THEN [d EXCEPT !.packet.src_pan = d.packet.dst_pan]
              ELSE [d EXCEPT !.packet.src_pan = IEEE802154_BCAST_PAN]

\* ADDRESSING FIELDS: source address
SourceAddress(w, d) ==
    IF d.done THEN d
    ELSE LET mode == d.packet.src_addr_mode
         IN  IF mode = IEEE802154_FCF_ADDR_SHORT
             THEN ReadField(w, d, "src16", 2, [d.packet EXCEPT !.src16 = w.src_addr])
             ELSE IF mode = IEEE802154_FCF_ADDR_EXT
                  THEN ReadField(w, d, "src64", 8, [d.packet EXCEPT !.src64 = w.src_addr])
                  ELSE IF mode # IEEE802154_FCF_ADDR_NONE
                       THEN AbortDissection(d, "ei_ieee802154e_src")
                       ELSE d

\* ADDRESSING FIELDS; `addressed` tells that neither return was taken
AddressingFields(w, d) ==
    LET a == SourceAddress(w, SourcePan(w, DestinationAddressing(w, d)))
    IN  [a EXCEPT !.addressed = ~a.done]

\* VERIFY FRAME CHECK SEQUENCE: checked here, displayed last.  fcs_ok keeps
\* its initial TRUE when the last two reported bytes were not captured.
\* (variant: the FCS is taken as captured whatever the capture holds)
FcsCaptured_always(w) == TRUE

\* tvb_bytes_exist(tvb, tvb_reported_length(tvb)-IEEE802154_FCS_LEN, IEEE802154_FCS_LEN)
FcsCaptured(w) == tvb_bytes_exist(w, w.reported - IEEE802154_FCS_LEN, IEEE802154_FCS_LEN)

VerifyFcs(w, e, d) ==
    IF d.done THEN d
    ELSE IF FcsCaptured(w)
         THEN [d EXCEPT !.fcs_ok = IF e.cc24xx THEN w.cc24xx_crc_ok ELSE w.crc_matches,
                        !.steps = Append(d.steps, "fcs_check")]
         ELSE d

KEY_ID_MODE_IMPLICIT       == 0
KEY_ID_MODE_KEY_INDEX      == 1
KEY_ID_MODE_KEY_EXPLICIT_4 == 2
KEY_ID_MODE_KEY_EXPLICIT_8 == 3

\* (variant: the version is not consulted)
AuxHeaderPresent_any_version(packet) == packet.security_enable

\* if (packet->security_enable && (packet->version == IEEE802154_VERSION_2006))
AuxHeaderPresent(packet) == packet.security_enable /\ packet.version = IEEE802154_VERSION_2006

\* Key identifier field(s): key source, then key index
KeyIdentifier(w, d) ==
    IF d.done \/ d.packet.key_id_mode = KEY_ID_MODE_IMPLICIT THEN d
    ELSE LET src == IF d.packet.key_id_mode = KEY_ID_MODE_KEY_EXPLICIT_4
                    THEN ReadField(w, d, "key_source", 4, d.packet)
                    ELSE IF d.packet.key_id_mode = KEY_ID_MODE_KEY_EXPLICIT_8
                         THEN ReadField(w, d, "key_source", 8, d.packet)
                         ELSE d
         IN  IF src.done THEN src ELSE ReadField(w, src, "key_index", 1, src.packet)

\* AUXILIARY SECURITY HEADER: security control, frame counter, key identifier
AuxHeaderFields(w, d) ==
    IF d.done \/ ~AuxHeaderPresent(d.packet) THEN d
    ELSE LET ctl == ReadField(w, d, "security_control", 1,
                        [d.packet EXCEPT !.security_level = Bits(w.security_control, 0, 3),
                                         !.key_id_mode    = Bits(w.security_control, 3, 2)])
             ctr == IF ctl.done THEN ctl ELSE ReadField(w, ctl, "frame_counter", 4, ctl.packet)
         IN  KeyIdentifier(w, ctr)

\* AUXILIARY SECURITY HEADER; aux_length is how far it moved the cursor
AuxiliarySecurityHeader(w, d) ==
    LET a == AuxHeaderFields(w, d) IN [a EXCEPT !.aux_length = a.offset - d.offset]

\* superframe specification, GTS fields, pending address list
BeaconFields(w, d) ==
    LET sf  == ReadField(w, d, "superframe", 2, d.packet)
        gts == IF sf.done THEN sf
               ELSE ReadField(w, sf, "gtsinfo", IF w.gts_count = 0 THEN 1 ELSE 2 + 3 * w.gts_count, sf.packet)
    IN  IF gts.done THEN gts
        ELSE ReadField(w, gts, "pendaddr", 1 + 2 * w.pend_num16 + 8 * w.pend_num64, gts.packet)

\* NONPAYLOAD FIELDS
NonpayloadFields(w, d) ==
    IF d.done THEN d
    ELSE IF d.packet.frame_type = IEEE802154_FCF_BEACON THEN BeaconFields(w, d)
         ELSE IF d.packet.frame_type = IEEE802154_FCF_CMD
              THEN ReadField(w, d, "command_id", 1, [d.packet EXCEPT !.command_id = w.command_id])
              ELSE d

\* IEEE802154_IS_ENCRYPTED(level): (level) & 0x4
IEEE802154_IS_ENCRYPTED(level) == Bits(level, 2, 1) # 0

\* IEEE802154_MIC_LENGTH(level): (0x2 << ((level) & 0x3)) & ~0x3
IEEE802154_MIC_LENGTH(level) == LET m == 2 * (2 ^ Bits(level, 0, 2)) IN m - (m % 4)

\* IEEE 802.15.4-2003 security information pre-pended to the payload
Security2003(w, e, d) ==
    IF d.done \/ ~(d.packet.security_enable /\ d.packet.version = IEEE802154_VERSION_2003) THEN d
    ELSE LET s == [d EXCEPT !.packet.security_level = e.ieee802154e_sec_suite]
         IN  IF ~IEEE802154_IS_ENCRYPTED(s.packet.security_level) THEN s
             ELSE LET c == ReadField(w, s, "sec_frame_counter", 4, s.packet)
                  IN  IF c.done THEN c ELSE ReadField(w, c, "sec_key_sequence_counter", 1, c.packet)

(***************************************************************************)
(* dissect_ieee802154e_decrypt.  e is what the frame does not carry: the   *)
(* preferences, the hint attached to the frame (hint_addr64, NULL without  *)
(* one), and the results of the cipher calls, which depend on the key and  *)
(* on the build (without libgcrypt both return FALSE).                     *)
(***************************************************************************)
DECRYPT_VERSION_UNSUPPORTED     == "DECRYPT_VERSION_UNSUPPORTED"
DECRYPT_PACKET_TOO_SMALL        == "DECRYPT_PACKET_TOO_SMALL"
DECRYPT_PACKET_NO_EXT_SRC_ADDR  == "DECRYPT_PACKET_NO_EXT_SRC_ADDR"
DECRYPT_PACKET_DECRYPT_FAILED   == "DECRYPT_PACKET_DECRYPT_FAILED"
DECRYPT_PACKET_MIC_CHECK_FAILED == "DECRYPT_PACKET_MIC_CHECK_FAILED"

VersionSupported(packet) ==
    packet.version \in {IEEE802154_VERSION_2012, IEEE802154_VERSION_2006, IEEE802154_VERSION_2003}

\* tvb_reported_length_remaining(tvb, offset) - IEEE802154_FCS_LEN - M
DecryptReportedLen(w, offset, packet) ==
    (w.reported - offset) - IEEE802154_FCS_LEN - IEEE802154_MIC_LENGTH(packet.security_level)

\* captured_len: the payload bytes that were captured
DecryptCapturedLen(w, offset, packet) ==
    IF tvb_bytes_exist(w, offset, DecryptReportedLen(w, offset, packet))
    THEN DecryptReportedLen(w, offset, packet)
    ELSE w.captured - offset

\* (variant: the MIC is taken as present whatever was captured)
HaveMic_always(w, offset, packet) == TRUE

\* have_mic = tvb_bytes_exist(tvb, offset + reported_len, M)
HaveMic(w, offset, packet) ==
    tvb_bytes_exist(w, offset + DecryptReportedLen(w, offset, packet), IEEE802154_MIC_LENGTH(packet.security_level))

\* the extended address of the sender: header, else hint, else none
HaveExtSrcAddr(e, packet) ==
    \/ packet.src_addr_mode = IEEE802154_FCF_ADDR_EXT
    \/ e.hint_addr64 # NULL

\* CCM* - CTR mode: the call of ccm_ctr_encrypt that is made, if any, fails
CtrFails(w, e, offset, packet) ==
    IF IEEE802154_IS_ENCRYPTED(packet.security_level) /\ DecryptCapturedLen(w, offset, packet) # 0
    THEN ~e.ccm_ctr_encrypt
    ELSE HaveMic(w, offset, packet) /\ ~e.ccm_ctr_encrypt

\* CCM* - CBC-mode message authentication, only if the MIC wasn't truncated
MicFails(w, e, offset, packet) ==
    HaveMic(w, offset, packet) /\ (~e.ccm_cbc_mac \/ ~e.mic_equal)

\* (variant: the key is looked up before the sender's extended address)
DecryptKeyChecks_key_first(e, packet) ==
    IF ~e.ieee802154e_key_valid THEN DECRYPT_PACKET_NO_KEY
    ELSE IF ~HaveExtSrcAddr(e, packet) THEN DECRYPT_PACKET_NO_EXT_SRC_ADDR
    ELSE DECRYPT_PACKET_SUCCEEDED

\* Key Lookup: the sender's extended address, then the key
DecryptKeyChecks(e, packet) ==
    IF ~HaveExtSrcAddr(e, packet) THEN DECRYPT_PACKET_NO_EXT_SRC_ADDR
    ELSE IF ~e.ieee802154e_key_valid THEN DECRYPT_PACKET_NO_KEY
    ELSE DECRYPT_PACKET_SUCCEEDED

\* (variant: the counters are left out of the authentication data of every
\* 2003 frame)
ExcludeCounters_any_2003(e, packet) == packet.version = IEEE802154_VERSION_2003

\* Exclude Frame Counter (4 bytes) and Key Sequence Counter (1 byte) from
\* the authentication data
ExcludeCounters(e, packet) ==
    packet.version = IEEE802154_VERSION_2003 /\ ~e.ieee802154e_extend_auth

\* l_m and l_a as handed to ccm_cbc_mac.  Both are guint: an l_a below 0
\* here stands for one that wrapped around.
MicLengths(w, e, offset, packet) ==
    IF ~IEEE802154_IS_ENCRYPTED(packet.security_level)
    THEN [l_m |-> 0, l_a |-> offset + DecryptCapturedLen(w, offset, packet)]
    ELSE IF ExcludeCounters(e, packet)
         THEN [l_m |-> DecryptCapturedLen(w, offset, packet), l_a |-> offset - 5]
         ELSE [l_m |-> DecryptCapturedLen(w, offset, packet), l_a |-> offset]

\* the CBC-mode message authentication is reached: no check before it
\* returned, and the MIC wasn't truncated
MicVerificationReached(w, e, offset, packet) ==
    /\ VersionSupported(packet)
    /\ DecryptReportedLen(w, offset, packet) >= 0
    /\ DecryptKeyChecks(e, packet) = DECRYPT_PACKET_SUCCEEDED
    /\ ~CtrFails(w, e, offset, packet)
    /\ HaveMic(w, offset, packet)

\* *status as dissect_ieee802154e_decrypt leaves it
dissect_ieee802154e_decrypt(w, e, offset, packet) ==
    IF ~VersionSupported(packet) THEN DECRYPT_VERSION_UNSUPPORTED
    ELSE IF DecryptReportedLen(w, offset, packet) < 0 THEN DECRYPT_PACKET_TOO_SMALL
    ELSE IF DecryptKeyChecks(e, packet) # DECRYPT_PACKET_SUCCEEDED THEN DecryptKeyChecks(e, packet)
    ELSE IF CtrFails(w, e, offset, packet) THEN DECRYPT_PACKET_DECRYPT_FAILED
    ELSE IF MicFails(w, e, offset, packet) THEN DECRYPT_PACKET_MIC_CHECK_FAILED
    ELSE DECRYPT_PACKET_SUCCEEDED

(***************************************************************************)
(* PAYLOAD DISSECTION and FRAME CHECK SEQUENCE.  w.payload tells how the   *)
(* registered sub-dissectors treat the payload: "panid" (taken by the      *)
(* dissectors of the PANID table, which e.panid_registered says for which  *)
(* PANIDs there is one), "heuristic" (taken by a heuristic                 *)
(* dissector), "unclaimed" (taken by none), "throws" (the sub-dissector    *)
(* called first raises an exception).                                      *)
(***************************************************************************)
\* (variant: a failed MIC check is fatal at every security level)
DecryptFatal_mic_always(status, packet) == status \notin {DECRYPT_PACKET_SUCCEEDED, DECRYPT_NOT_ENCRYPTED}

\* switch (status): the cases that end in goto dissect_ieee802154e_fcs
DecryptFatal(status, packet) ==
    \/ status \in {DECRYPT_VERSION_UNSUPPORTED, DECRYPT_PACKET_TOO_SMALL, DECRYPT_PACKET_NO_EXT_SRC_ADDR,
                   DECRYPT_PACKET_NO_KEY, DECRYPT_PACKET_DECRYPT_FAILED}
    \/ status = DECRYPT_PACKET_MIC_CHECK_FAILED /\ IEEE802154_IS_ENCRYPTED(packet.security_level)

\* Encrypted Payload: decrypt, report the failure, hand a fatal one to the
\* data dissector and go to dissect_ieee802154e_fcs (to_fcs)
EncryptedPayload(w, e, d) ==
    IF d.done THEN d
    ELSE IF ~d.packet.security_enable
         THEN [d EXCEPT !.payload_offset = d.offset, !.steps = Append(d.steps, "plaintext")]
    ELSE LET status == dissect_ieee802154e_decrypt(w, e, d.offset, d.packet)
             failed == status \notin {DECRYPT_PACKET_SUCCEEDED, DECRYPT_NOT_ENCRYPTED}
             fatal  == DecryptFatal(status, d.packet)
         IN  [d EXCEPT !.payload_offset = d.offset,
                       !.status = status,
                       !.mic_lengths = IF MicVerificationReached(w, e, d.offset, d.packet)
                                       THEN <<MicLengths(w, e, d.offset, d.packet)>> ELSE <<>>,
                       !.expert = IF failed THEN d.expert \cup {"ei_ieee802154e_decrypt_error"} ELSE d.expert,
                       !.steps  = IF fatal THEN d.steps \o <<"decrypt", "raw_data">> ELSE Append(d.steps, "decrypt"),
                       !.to_fcs = fatal]

\* tvb_reported_length(payload_tvb)
PayloadReportedLength(w, d) ==
    IF d.status \in {DECRYPT_PACKET_SUCCEEDED, DECRYPT_PACKET_MIC_CHECK_FAILED}
    THEN DecryptReportedLen(w, d.offset, d.packet)
    ELSE w.reported - d.offset - IEEE802154_FCS_LEN

\* (variant: the preference is not consulted)
DataSanityFails_any_pref(w, e, d) == ~d.fcs_ok \/ PayloadReportedLength(w, d) = 0

\* Sanity-check. if ((!fcs_ok && ieee802154e_fcs_ok) || !tvb_reported_length(payload_tvb))
DataSanityFails(w, e, d) == (~d.fcs_ok /\ e.ieee802154e_fcs_ok) \/ PayloadReportedLength(w, d) = 0

\* the second attempt on the PANID table
PanidRetry(packet) == AddrPresent(packet.dst_addr_mode) /\ packet.dst_pan # packet.src_pan

\* the PANID the second attempt hands to dissector_try_uint_new
PanidRetryKey(packet) == packet.src_pan

\* dissector_try_uint_new(panid_dissector_table, pan, ...) finds a dissector
\* that takes the payload, by returning non-zero or by raising an exception
PanidTakes(w, e, pan) == pan \in e.panid_registered /\ w.payload \in {"panid", "throws"}

\* the PANIDs the table is tried with, in order
DataPanidKeys(w, e, d) ==
    IF d.packet.frame_type # IEEE802154_FCF_DATA \/ DataSanityFails(w, e, d) THEN <<>>
    ELSE IF PanidTakes(w, e, d.packet.src_pan) \/ ~PanidRetry(d.packet) THEN <<d.packet.src_pan>>
    ELSE <<d.packet.src_pan, PanidRetryKey(d.packet)>>

\* dissector_try_heuristic and the fall-through to the data dissector
HeuristicDispatch(w) ==
    IF w.payload = "throws" THEN <<"heuristic", "throw">>
    ELSE IF w.payload = "heuristic" THEN <<"heuristic">>
    ELSE <<"heuristic", "data_handle">>

\* case IEEE802154_FCF_DATA: the calls made, in order
DataDispatch(w, e, d) ==
    IF DataSanityFails(w, e, d) THEN <<"data_handle">>
    ELSE LET keys == DataPanidKeys(w, e, d)
             tries == [i \in 1..Len(keys) |-> "panid_table"]
         IN  IF PanidTakes(w, e, keys[Len(keys)])
             THEN tries \o (IF w.payload = "throws" THEN <<"throw">> ELSE <<>>)
             ELSE tries \o HeuristicDispatch(w)

IEEE802154_CMD_ASRQ       == 1
IEEE802154_CMD_DATA_RQ    == 4
IEEE802154_CMD_PANID_ERR  == 5
IEEE802154_CMD_ORPH_NOTIF == 6
IEEE802154_CMD_BCN_RQ     == 7
IEEE802154_CMD_GTS_REQ    == 9

\* the addressing a command requires: the condition handed to
\* IEEE802154_CMD_ADDR_CHECK (both conditions, for a Coordinator Realignment
\* directed to a 16-bit address)
CmdAddressingValid(p) ==
    CASE p.command_id \in {IEEE802154_CMD_ASRSP, IEEE802154_CMD_DISAS, IEEE802154_CMD_PANID_ERR} ->
            p.src_addr_mode = IEEE802154_FCF_ADDR_EXT /\ p.dst_addr_mode = IEEE802154_FCF_ADDR_EXT
      [] p.command_id = IEEE802154_CMD_ASRQ ->
            p.src_addr_mode = IEEE802154_FCF_ADDR_EXT /\ p.dst_addr_mode # IEEE802154_FCF_ADDR_NONE
      [] p.command_id = IEEE802154_CMD_DATA_RQ -> p.src_addr_mode # IEEE802154_FCF_ADDR_NONE
      [] p.command_id = IEEE802154_CMD_ORPH_NOTIF ->
            /\ p.src_addr_mode = IEEE802154_FCF_ADDR_EXT
            /\ p.dst_addr_mode = IEEE802154_FCF_ADDR_SHORT
            /\ p.dst16 = IEEE802154_BCAST_ADDR
            /\ p.src_pan = IEEE802154_BCAST_PAN
            /\ p.dst_pan = IEEE802154_BCAST_PAN
      [] p.command_id = IEEE802154_CMD_BCN_RQ ->
            /\ p.dst_addr_mode = IEEE802154_FCF_ADDR_SHORT
            /\ p.src_addr_mode = IEEE802154_FCF_ADDR_NONE
            /\ p.dst16 = IEEE802154_BCAST_ADDR
            /\ p.dst_pan = IEEE802154_BCAST_PAN
      [] p.command_id = IEEE802154_CMD_COORD_REAL ->
            /\ p.src_addr_mode = IEEE802154_FCF_ADDR_EXT
            /\ p.dst_pan = IEEE802154_BCAST_PAN
            /\ p.dst_addr_mode # IEEE802154_FCF_ADDR_NONE
            /\ p.dst_addr_mode = IEEE802154_FCF_ADDR_SHORT => p.dst16 = IEEE802154_BCAST_ADDR
      [] p.command_id = IEEE802154_CMD_GTS_REQ ->
            /\ p.src_addr_mode = IEEE802154_FCF_ADDR_SHORT
            /\ p.dst_addr_mode = IEEE802154_FCF_ADDR_NONE
            /\ p.src16 # IEEE802154_BCAST_ADDR
            /\ p.src16 # IEEE802154_NO_ADDR16
      [] OTHER -> TRUE

\* (variant: a command with invalid addressing is not parsed)
CommandParsed_only_valid(p) == CmdAddressingValid(p)

\* IEEE802154_CMD_ADDR_CHECK is an `if` around the expert info only: the
\* statement behind it runs whatever the addressing
CommandParsed(p) == TRUE

\* the sub-dissector of the command body, "none" for a command without one
CommandBodyParser(command_id) ==
    CASE command_id = IEEE802154_CMD_ASRQ       -> "assoc_req"
      [] command_id = IEEE802154_CMD_ASRSP      -> "assoc_rsp"
      [] command_id = IEEE802154_CMD_DISAS      -> "disassoc"
      [] command_id = IEEE802154_CMD_COORD_REAL -> "realign"
      [] command_id = IEEE802154_CMD_GTS_REQ    -> "gtsreq"
      [] OTHER -> "none"

\* the cases that leave dissect_ieee802154e_command by `return`; the others
\* `break` to the data dissector behind the switch
CommandReturns(command_id) ==
    command_id \in {IEEE802154_CMD_DISAS, IEEE802154_CMD_COORD_REAL, IEEE802154_CMD_GTS_REQ}

\* dissect_ieee802154e_command: the calls made, in order
CommandCalls(w, p) ==
    IF ~CommandParsed(p) \/ CommandBodyParser(p.command_id) = "none" THEN <<"data_handle">>
    ELSE IF w.payload = "throws" THEN <<CommandBodyParser(p.command_id), "throw">>
    ELSE IF CommandReturns(p.command_id) THEN <<CommandBodyParser(p.command_id)>>
    ELSE <<CommandBodyParser(p.command_id), "data_handle">>

\* the expert infos dissect_ieee802154e_command adds
CommandExpert(d) ==
    IF d.packet.frame_type = IEEE802154_FCF_CMD /\ ~CmdAddressingValid(d.packet)
    THEN {"ei_ieee802154e_invalid_addressing"} ELSE {}

\* switch (packet->frame_type): the calls made inside the TRY block
SubDissection(w, e, d) ==
    IF d.packet.frame_type = IEEE802154_FCF_BEACON
    THEN IF w.payload = "throws" THEN <<"beacon_heuristic", "throw">>
         ELSE IF w.payload = "heuristic" THEN <<"beacon_heuristic">>
         ELSE <<"beacon_heuristic", "data_handle">>
    ELSE IF d.packet.frame_type = IEEE802154_FCF_CMD
         THEN <<"command">> \o CommandCalls(w, d.packet)
         ELSE IF d.packet.frame_type = IEEE802154_FCF_DATA
              THEN DataDispatch(w, e, d)
              ELSE <<"data_handle">>

\* (variant: no CATCH_ALL around the sub-dissection)
CatchAll_missing(d, calls) ==
    IF calls[Len(calls)] = "throw"
    THEN [d EXCEPT !.steps = d.steps \o calls, !.done = TRUE, !.raised = TRUE]
    ELSE [d EXCEPT !.steps = d.steps \o calls]

\* TRY { ... } CATCH_ALL { show_exception(...) } ENDTRY
CatchAll(d, calls) ==
    IF calls[Len(calls)] = "throw"
    THEN [d EXCEPT !.steps = d.steps \o calls \o <<"show_exception">>]
    ELSE [d EXCEPT !.steps = d.steps \o calls]

\* Try to dissect the payload.
PayloadDissection(w, e, d) ==
    IF d.done \/ d.to_fcs THEN d
    ELSE LET t == CatchAll(d, SubDissection(w, e, d))
         IN  [t EXCEPT !.expert = t.expert \cup CommandExpert(d),
                       !.panid_keys = DataPanidKeys(w, e, d)]

\* what is shown of the FCS correctness
FcsField(w, e, d) ==
    IF FcsCaptured(w) /\ e.tree
    THEN IF e.cc24xx
         THEN (IF d.fcs_ok THEN "OK" ELSE "Bad")
         ELSE (IF d.fcs_ok THEN "Correct" ELSE "Incorrect")
    ELSE IF e.tree THEN "Unknown" ELSE "none"

\* if (!fcs_ok) : note ", Bad FCS" and flag the packet
BadFcsNoted(e, d) == ~d.fcs_ok

\* dissect_ieee802154e_fcs:
FrameCheckSequence(w, e, d) ==
    IF d.done THEN d
    ELSE [d EXCEPT !.offset = w.reported - IEEE802154_FCS_LEN,
                   !.steps = Append(d.steps, "fcs"),
                   !.fcs_field = FcsField(w, e, d),
                   !.bad_fcs_note = BadFcsNoted(e, d),
                   !.expert = IF BadFcsNoted(e, d) THEN d.expert \cup {"ei_ieee802154e_fcs"} ELSE d.expert,
                   !.done = TRUE]

\* the header of the frame, up to the addressing fields
HeaderFields(w, d) == AddressingFields(w, SequenceNumber(w, dissect_ieee802154e_fcf(w, d)))

\* the security fields and the fields that are not payload
SecurityFields(w, e, d) ==
    Security2003(w, e, NonpayloadFields(w, AuxiliarySecurityHeader(w, VerifyFcs(w, e, d))))

\* dissect_ieee802154e_common from its first statement to its last
Dissection(w, e) ==
    LET hdr == HeaderFields(w, StartDissection)
        sec == SecurityFields(w, e, hdr)
    IN  FrameCheckSequence(w, e, PayloadDissection(w, e, EncryptedPayload(w, e, sec)))

(***************************************************************************)
(* ccm_init_block.  A guint64 or guint32 is held as its 16-bit limbs, most *)
(* significant first; the block is the sequence of its 16 bytes, block[i]  *)
(* of the source being element i + 1.                                      *)
(***************************************************************************)
\* (guint8)((x >> shift) & 0xff), for a shift that is a multiple of 8
ShiftedByte(x, shift) == (x[Len(x) - (shift \div 16)] \div (IF shift % 16 = 0 THEN 1 ELSE 256)) % 256

\* the flags byte: (L-1), (M-2)/2 in bits 3-5, Adata in bit 6
CcmFlags(adata, M) == (2 - 1) + (IF M > 0 THEN ((M - 2) \div 2) * 8 ELSE 0) + (IF adata THEN 64 ELSE 0)

\* (variant: the nonce always ends with the security level)
CcmNonceEnd_security_level(packet) == packet.security_level % 256

\* the last byte of the nonce
CcmNonceEnd(packet) ==
    IF packet.version = IEEE802154_VERSION_2003 THEN packet.key_sequence_counter
    ELSE packet.security_level % 256

ccm_init_block(adata, M, addr, packet, ctr_val) ==
    <<CcmFlags(adata, M)>>
    \o <<ShiftedByte(addr, 56), ShiftedByte(addr, 48), ShiftedByte(addr, 40), ShiftedByte(addr, 32)>>
    \o <<ShiftedByte(addr, 24), ShiftedByte(addr, 16), ShiftedByte(addr, 8), ShiftedByte(addr, 0)>>
    \o <<ShiftedByte(packet.frame_counter, 24), ShiftedByte(packet.frame_counter, 16)>>
    \o <<ShiftedByte(packet.frame_counter, 8), ShiftedByte(packet.frame_counter, 0)>>
    \o <<CcmNonceEnd(packet)>>
    \o <<(ctr_val \div 256) % 256, ctr_val % 256>>

(***************************************************************************)
(* State machine.                                                          *)
(***************************************************************************)
StaticLists(entries) ==
    {q \in SeqsUpTo(entries, MaxStatic) : \A i \in 1..Len(q) : addr_uat_update_cb(q[i])}

\* Before the first capture file is opened: ieee802154e_map = { NULL, NULL }.
InitWith(entries) ==
    /\ initialized = FALSE
    /\ static_addrs \in StaticLists(entries)
    /\ recs = <<>>
    /\ rec_key = <<>>
    /\ short_table = EmptyTable
    /\ long_table = EmptyTable
    /\ frames = <<>>
    /\ last = [op |-> "none"]

Init      == InitWith(StaticEntries)
InitReset == InitWith(StaticEntriesReset)

SetMap(m) ==
    /\ recs' = m.recs
    /\ rec_key' = m.rec_key
    /\ short_table' = m.short_table
    /\ long_table' = m.long_table

\* A capture file is opened: the init routine proto_init_ieee802154e runs
\* (the records of the file closed before it went with that file's scope;
\* `released` is how many they were).
ProtoInit ==
    /\ \E m \in proto_init_ieee802154e(static_addrs) : SetMap(m)
    /\ initialized' = TRUE
    /\ frames' = <<>>
    /\ last' = [op |-> "init", released |-> Len(recs)]
    /\ UNCHANGED static_addrs

\* The next frame of the capture is dissected for the first time
\* (pinfo->fd->flags.visited is clear, pinfo->fd->num is its position).
FirstPass(capture) ==
    /\ initialized
    /\ Len(frames) < MaxFrames
    /\ \E f \in capture :
         LET fnum == Len(frames) + 1 IN
         \E o \in dissect_ieee802154e_common(CurMap, f, fnum, FALSE) :
            /\ Len(o.map.recs) <= MaxRecs
            /\ SetMap(o.map)
            /\ frames' = Append(frames, f)
            /\ last' = [op |-> "dissect", visited |-> FALSE, fnum |-> fnum, frame |-> f,
                        sub |-> o.sub, call |-> o.call, hint |-> HintLookup(short_table, f)]
    /\ UNCHANGED <<initialized, static_addrs>>

\* A frame dissected before is dissected again (flags.visited is set).
ReDissect ==
    /\ initialized
    /\ \E fnum \in 1..Len(frames) :
         \E o \in dissect_ieee802154e_common(CurMap, frames[fnum], fnum, TRUE) :
            /\ Len(o.map.recs) <= MaxRecs
            /\ SetMap(o.map)
            /\ last' = [op |-> "dissect", visited |-> TRUE, fnum |-> fnum, frame |-> frames[fnum],
                        sub |-> o.sub, call |-> o.call]
    /\ UNCHANGED <<initialized, static_addrs, frames>>

FirstPassAny      == FirstPass(Frames)
FirstPassAssocRsp == FirstPass(FramesAssocRsp)
FirstPassDisassoc == FirstPass(FramesDisassoc)
FirstPassRealign  == FirstPass(FramesRealign)
FirstPassReset    == FirstPass(FramesReset)

\* Captures mixing the frames that change the map.
Next == ProtoInit \/ FirstPassAny \/ ReDissect

Spec == Init /\ [][Next]_vars

\* Captures of Association Responses of every kind (and Disassociations).
NextAssocRsp == ProtoInit \/ FirstPassAssocRsp \/ ReDissect

SpecAssocRsp == Init /\ [][NextAssocRsp]_vars

\* Captures of Disassociation Notifications of every kind (and Association Responses).
NextDisassoc == ProtoInit \/ FirstPassDisassoc \/ ReDissect

SpecDisassoc == Init /\ [][NextDisassoc]_vars

\* Captures of Coordinator Realignments of every kind (and Disassociations).
NextRealign == ProtoInit \/ FirstPassRealign \/ ReDissect

SpecRealign == Init /\ [][NextRealign]_vars

\* Sessions over every static address list, with a few learned mappings.
NextReset == ProtoInit \/ FirstPassReset \/ ReDissect

SpecReset == InitReset /\ [][NextReset]_vars

\* Captures of the frames a mapping is learned from.
FirstPassLearn == FirstPass(FramesLearn)
NextLearn      == ProtoInit \/ FirstPassLearn \/ ReDissect

SpecLearn == Init /\ [][NextLearn]_vars

\* Captures of the frames that change the map, some with a wrong FCS.
FirstPassBadFcs == FirstPass(FramesBadFcs)
NextBadFcs      == ProtoInit \/ FirstPassBadFcs \/ ReDissect

SpecBadFcs == Init /\ [][NextBadFcs]_vars

\* Sessions in which one device, statically mapped or not, associates and
\* disassociates: every update carries the same extended address.
InitReassoc      == InitWith(StaticEntriesReassoc)
FirstPassReassoc == FirstPass(FramesReassoc)
NextReassoc      == ProtoInit \/ FirstPassReassoc \/ ReDissect

SpecReassoc == InitReassoc /\ [][NextReassoc]_vars

(***************************************************************************)
(* One frame taken through dissect_ieee802154e_common field by field: the  *)
(* frame and its environment are drawn at the start, the dissection is     *)
(* left in `last`.  The Address Map is not involved.                       *)
(***************************************************************************)
SECURITY_LEVEL_MIC_32     == 1
SECURITY_LEVEL_ENC        == 4
SECURITY_LEVEL_ENC_MIC_64 == 6

\* FCF of a frame with the given type, flags, addressing modes and version
Fcf(type, sec, intra, seqsup, dst, ver, src) == type + 8 * sec + 64 * intra + 256 * seqsup + 1024 * dst + 4096 * ver + 16384 * src

\* a frame: the field values that play no part in the control flow are fixed
Wire(fcf, reported, captured, ctl, payload, crc) == [fcf |-> fcf, reported |-> reported, captured |-> captured, seqno |-> 7, dst_pan |-> 1, dst_addr |-> 2, src_pan |-> 3, src_addr |-> 4, security_control |-> ctl, command_id |-> IEEE802154_CMD_DATA_RQ, gts_count |-> 0, pend_num16 |-> 0, pend_num64 |-> 0, crc_matches |-> crc, cc24xx_crc_ok |-> crc, payload |-> payload]

\* the preferences as registered and a valid key, no hint, a build with a
\* working cipher, a PANID dissector for both PANs of the frames
DefaultEnv ==
    [cc24xx |-> FALSE, ieee802154e_fcs_ok |-> TRUE, ieee802154e_sec_suite |-> SECURITY_LEVEL_ENC_MIC_64,
     ieee802154e_key_valid |-> TRUE, ieee802154e_extend_auth |-> TRUE, hint_addr64 |-> NULL, ccm_ctr_encrypt |-> TRUE, ccm_cbc_mac |-> TRUE,
     mic_equal |-> TRUE, tree |-> TRUE, panid_registered |-> {1, 3}]

InitWire(inputs) ==
    /\ initialized = TRUE
    /\ static_addrs = <<>>
    /\ recs = <<>>
    /\ rec_key = <<>>
    /\ short_table = EmptyTable
    /\ long_table = EmptyTable
    /\ frames \in {<<i>> : i \in inputs}
    /\ last = [op |-> "none"]

\* The frame is handed to dissect_ieee802154e_common.
DissectFrame ==
    /\ last.op = "none"
    /\ Len(frames) = 1
    /\ last' = [op |-> "frame", w |-> frames[1].w, e |-> frames[1].e,
                d |-> Dissection(frames[1].w, frames[1].e)]
    /\ UNCHANGED <<initialized, static_addrs, recs, rec_key, short_table, long_table, frames>>

\* Secured Beacon, Data and Command frames of every version and security
\* level, whole, with the FCS cut off, with the MIC cut into, and cut inside
\* the payload.
DecryptReported == {30, 60}
DecryptCaptured(reported) == {reported, reported - 3, 26}
DecryptFcfs == {Fcf(type, 1, 0, 0, IEEE802154_FCF_ADDR_SHORT, ver, src) : type \in {IEEE802154_FCF_BEACON, IEEE802154_FCF_DATA, IEEE802154_FCF_CMD}, ver \in 0..3, src \in {IEEE802154_FCF_ADDR_NONE, IEEE802154_FCF_ADDR_SHORT, IEEE802154_FCF_ADDR_EXT}}
DecryptWires == {Wire(fcf, r, c, level, "unclaimed", TRUE) : fcf \in DecryptFcfs, r \in DecryptReported, c \in {25, 26, 27, 30, 57, 60}, level \in 0..7}
DecryptEnvs ==
    {[DefaultEnv EXCEPT !.ieee802154e_key_valid = k, !.hint_addr64 = h, !.ccm_ctr_encrypt = ctr,
                        !.ccm_cbc_mac = cbc, !.mic_equal = eq, !.ieee802154e_sec_suite = suite,
                        !.ieee802154e_extend_auth = ext] :
        ext \in BOOLEAN, k \in BOOLEAN, h \in {NULL, 10}, ctr \in BOOLEAN, cbc \in BOOLEAN, eq \in BOOLEAN,
        suite \in {SECURITY_LEVEL_MIC_32, SECURITY_LEVEL_ENC_MIC_64}}
\* a hint can only come from the lookup of a short source address
HintPossible(w, e) == e.hint_addr64 # NULL => Bits(w.fcf, 14, 2) = IEEE802154_FCF_ADDR_SHORT
DecryptInputs == {i \in [w : {x \in DecryptWires : x.captured \in DecryptCaptured(x.reported)}, e : DecryptEnvs] : HintPossible(i.w, i.e)}

InitDecrypt == InitWire(DecryptInputs)
NextDecrypt == DissectFrame
SpecDecrypt == InitDecrypt /\ [][NextDecrypt]_vars

\* Beacon, Data, Acknowledgment and Command frames, plain and secured, with
\* every behaviour of the sub-dissectors, a right or a wrong FCS; whole, with
\* the FCS cut off, and cut right behind the addressing fields; the
\* destination addressing mode is Short or the reserved value.
PayloadReported == 40
PayloadCaptured == {PayloadReported, PayloadReported - 1, 12}
PayloadFcfs == {Fcf(type, sec, intra, 0, dst, ver, IEEE802154_FCF_ADDR_SHORT) : type \in 0..3, sec \in 0..1, intra \in 0..1, dst \in {IEEE802154_FCF_ADDR_SHORT, AddrModeReserved}, ver \in {IEEE802154_VERSION_2003, IEEE802154_VERSION_2006}}
PayloadWires == {Wire(fcf, PayloadReported, c, SECURITY_LEVEL_ENC_MIC_64, payload, crc) : fcf \in PayloadFcfs, c \in PayloadCaptured, payload \in {"panid", "heuristic", "unclaimed", "throws"}, crc \in BOOLEAN}
PayloadEnvs ==
    {[DefaultEnv EXCEPT !.cc24xx = cc, !.ieee802154e_fcs_ok = pref, !.tree = tree,
                        !.ieee802154e_key_valid = k, !.hint_addr64 = 10] :
        cc \in BOOLEAN, pref \in BOOLEAN, tree \in BOOLEAN, k \in BOOLEAN}
PayloadInputs == [w : PayloadWires, e : PayloadEnvs]

InitPayload == InitWire(PayloadInputs)
NextPayload == DissectFrame
SpecPayload == InitPayload /\ [][NextPayload]_vars

\* Every value of the Frame Control Field, on a frame captured whole and
\* long enough for the longest header.
HeaderReported == 60
HeaderFcfs == 0..65535
HeaderInputs == {[w |-> Wire(fcf, HeaderReported, HeaderReported, 0, "unclaimed", TRUE), e |-> DefaultEnv] : fcf \in HeaderFcfs}

InitHeader == InitWire(HeaderInputs)
NextHeader == DissectFrame
SpecHeader == InitHeader /\ [][NextHeader]_vars

\* Frames of every type and version, plain and secured, with every value of
\* the security control field; captured whole, and cut inside the auxiliary
\* security header.
AuxReported == 60
AuxCaptured == {AuxReported, 20}
AuxFcfs == {Fcf(type, sec, 0, seqsup, IEEE802154_FCF_ADDR_SHORT, ver, src) : type \in 0..3, sec \in 0..1, seqsup \in 0..1, ver \in 0..3, src \in {IEEE802154_FCF_ADDR_SHORT, IEEE802154_FCF_ADDR_EXT}}
AuxSecurityControls == 0..255
AuxInputs == {[w |-> Wire(fcf, AuxReported, c, ctl, "unclaimed", TRUE), e |-> DefaultEnv] : fcf \in AuxFcfs, c \in AuxCaptured, ctl \in AuxSecurityControls}

InitAuxHeader == InitWire(AuxInputs)
NextAuxHeader == DissectFrame
SpecAuxHeader == InitAuxHeader /\ [][NextAuxHeader]_vars

\* Command frames of every command identifier, with every present/absent
\* combination of the addresses and with the broadcast values the addressing
\* checks look at; captured whole.
CommandReported == 60
CommandIds == 0..10
CommandFcfs == {Fcf(IEEE802154_FCF_CMD, 0, intra, 0, dst, IEEE802154_VERSION_2006, src) : intra \in 0..1, dst \in {IEEE802154_FCF_ADDR_NONE, IEEE802154_FCF_ADDR_SHORT, IEEE802154_FCF_ADDR_EXT}, src \in {IEEE802154_FCF_ADDR_NONE, IEEE802154_FCF_ADDR_SHORT, IEEE802154_FCF_ADDR_EXT}}
CommandAddressings == [fcf : CommandFcfs, dst_pan : {1, IEEE802154_BCAST_PAN}, dst_addr : {2, IEEE802154_BCAST_ADDR}, src_pan : {3, IEEE802154_BCAST_PAN}, src_addr : {4, IEEE802154_NO_ADDR16}]
CommandWire(a, command_id, payload, crc) == [Wire(a.fcf, CommandReported, CommandReported, 0, payload, crc) EXCEPT !.command_id = command_id, !.dst_pan = a.dst_pan, !.dst_addr = a.dst_addr, !.src_pan = a.src_pan, !.src_addr = a.src_addr]
CommandWires == {CommandWire(a, c, payload, crc) : a \in CommandAddressings, c \in CommandIds, payload \in {"unclaimed", "throws"}, crc \in BOOLEAN}
CommandEnvs == {[DefaultEnv EXCEPT !.ieee802154e_fcs_ok = pref] : pref \in BOOLEAN}
CommandInputs == [w : CommandWires, e : CommandEnvs]

InitCommand == InitWire(CommandInputs)
NextCommand == DissectFrame
SpecCommand == InitCommand /\ [][NextCommand]_vars

\* ccm_init_block applied to one set of arguments: both uses made of it by
\* dissect_ieee802154e_decrypt (no Adata, M and counter 0; Adata, the MIC
\* length and l(m)) and the other combinations.
CcmAddrs == {<<0, 0, 0, 0>>, <<258, 772, 1286, 1800>>, <<65535, 0, 65280, 255>>}
CcmFrameCounters == {<<0, 0>>, <<258, 772>>, <<65280, 255>>}
CcmMicLengths == {IEEE802154_MIC_LENGTH(level) : level \in 0..7}
CcmCounters == {0, 1, 255, 256, 4660}
CcmPackets == [version : {IEEE802154_VERSION_2003, IEEE802154_VERSION_2006, IEEE802154_VERSION_2012}, frame_counter : CcmFrameCounters, key_sequence_counter : {0, 90}, security_level : 0..7]
CcmInputs == [adata : BOOLEAN, M : CcmMicLengths, addr : CcmAddrs, packet : CcmPackets, ctr_val : CcmCounters]

InitCcm == InitWire(CcmInputs)

CcmInitBlock ==
    /\ last.op = "none"
    /\ Len(frames) = 1
    /\ last' = [op |-> "ccm_init_block", in |-> frames[1], block |-> ccm_init_block(frames[1].adata, frames[1].M, frames[1].addr, frames[1].packet, frames[1].ctr_val)]
    /\ UNCHANGED <<initialized, static_addrs, recs, rec_key, short_table, long_table, frames>>

NextCcm == CcmInitBlock
SpecCcm == InitCcm /\ [][NextCcm]_vars

\* Data frames with each destination addressing mode, with and without PAN
\* compression, under every registration of PANID dissectors for the two
\* PANs of the frame, with every behaviour of the sub-dissectors.
DispatchReported == 40
DispatchFcfs == {Fcf(IEEE802154_FCF_DATA, 0, intra, 0, dst, IEEE802154_VERSION_2006, IEEE802154_FCF_ADDR_SHORT) : intra \in 0..1, dst \in {IEEE802154_FCF_ADDR_NONE, IEEE802154_FCF_ADDR_SHORT, IEEE802154_FCF_ADDR_EXT}}
DispatchWires == {Wire(fcf, DispatchReported, DispatchReported, 0, payload, crc) : fcf \in DispatchFcfs, payload \in {"panid", "heuristic", "unclaimed", "throws"}, crc \in BOOLEAN}
DispatchEnvs == {[DefaultEnv EXCEPT !.panid_registered = reg, !.ieee802154e_fcs_ok = pref] : reg \in SUBSET {1, 3}, pref \in BOOLEAN}
DispatchInputs == [w : DispatchWires, e : DispatchEnvs]

InitDispatch == InitWire(DispatchInputs)
NextDispatch == DissectFrame
SpecDispatch == InitDispatch /\ [][NextDispatch]_vars

(***************************************************************************)
(* Properties.  `last` describes the step that led to the current state,   *)
(* so last' in an action formula describes the step being taken.           *)
(***************************************************************************)
MapUnchanged == UNCHANGED <<recs, rec_key, short_table, long_table>>

IsDissect(l)    == l.op = "dissect"
IsUpdate(l)     == IsDissect(l) /\ l.call.fn = "update"
IsInvalidate(l) == IsDissect(l) /\ l.call.fn \in {"invalidate_long", "invalidate_short"}
CallKey(c)      == ieee802154e_short_addr(c.pan, c.short_addr)
Sentinels       == {IEEE802154_NO_ADDR16, IEEE802154_BCAST_ADDR}

\* C1: re-dissecting a frame that was dissected before (visited flag set)
\* leaves the Address Map unchanged, whatever the frame.
C1_RedissectLeavesMapUnchanged ==
    [][(IsDissect(last') /\ last'.visited) => MapUnchanged]_vars

\* C2: ieee802154e_addr_update called when the record found under the short
\* key has another extended address sets that record's end index to n,
\* creates a record (start n, end 0, ext), and afterwards the lookups under
\* the short key and under the long key both return the new record.
C2_UpdateReplacesMapping ==
    [][(IsUpdate(last') /\ last'.call.found # NULL
            /\ recs[last'.call.found].addr64 # last'.call.long_addr)
        => LET c   == last'.call
               new == Len(recs) + 1
           IN  /\ Len(recs') = new
               /\ recs'[c.found].end_fnum = c.fnum
               /\ recs'[new] = ieee802154e_map_rec(current_proto, c.fnum, 0, c.long_addr)
               /\ c.ret = new
               /\ g_hash_table_lookup(short_table', CallKey(c)) = new
               /\ g_hash_table_lookup(long_table', c.long_addr) = new]_vars

\* C3: ieee802154e_addr_update called with the extended address of the record
\* found under the short key creates no record, returns that record, and
\* leaves every record and both tables as they were, whatever fnum is passed.
C3_UpdateIdempotent ==
    [][(IsUpdate(last') /\ last'.call.found # NULL
            /\ recs[last'.call.found].addr64 = last'.call.long_addr)
        => (MapUnchanged /\ last'.call.ret = last'.call.found)]_vars

\* a repeated update passed another frame number than the record's start
C3_RepeatedUpdateSeen ==
    /\ IsUpdate(last)
    /\ last.call.found # NULL
    /\ last.call.ret = last.call.found
    /\ recs[last.call.ret].addr64 = last.call.long_addr
    /\ recs[last.call.ret].start_fnum # last.call.fnum
    /\ recs[last.call.ret].end_fnum = 0

\* C4: in every reachable state each short key has at most one record with
\* end index 0 among all the records ever created for it.
C4_OneOpenRecordPerShortKey ==
    \A i, j \in 1..Len(recs) :
        (rec_key[i] = rec_key[j] /\ recs[i].end_fnum = 0 /\ recs[j].end_fnum = 0) => i = j

\* C5: after an update (short, pan, ext), closing the mapping through the
\* long key ext at n shows under the short key (pan, short) (end index n),
\* and closing it through the short key shows under the long key.
C5_InvalidateSeenFromOtherIndex ==
    [][(IsUpdate(last) /\ IsInvalidate(last'))
        => LET u == last.call
               c == last'.call
           IN  /\ (c.fn = "invalidate_long" /\ c.long_addr = u.long_addr)
                    => LET r == g_hash_table_lookup(short_table', CallKey(u))
                       IN  r # NULL /\ recs'[r].end_fnum = c.fnum
               /\ (c.fn = "invalidate_short" /\ CallKey(c) = CallKey(u))
                    => LET r == g_hash_table_lookup(long_table', u.long_addr)
                       IN  r # NULL /\ recs'[r].end_fnum = c.fnum]_vars

C7_AssocRspUpdatesOnlyRealAddress ==
    [][(IsDissect(last') /\ last'.sub = "assoc_rsp")
        => LET f   == last'.frame
               new == Len(recs) + 1
           IN  IF f.status = IEEE802154_CMD_ASRSP_AS_SUCCESS /\ f.short_addr \notin Sentinels
               THEN \/ /\ Len(recs') = new
                       /\ recs'[new] = ieee802154e_map_rec(current_proto, last'.fnum, 0, packet_dst64(f))
                       /\ rec_key'[new] = ieee802154e_short_addr(packet_dst_pan(f), f.short_addr)
                    \/ /\ last'.call.found # NULL
                       /\ recs[last'.call.found].addr64 = packet_dst64(f)
                       /\ MapUnchanged
               ELSE MapUnchanged]_vars

\* C8: a Disassociation Notification whose sub-dissector reaches the address
\* table, dissected for the first time, sets to the frame's number the end
\* index of the record found under the destination (the long key dst64 when
\* the destination mode is Extended, the short key (dst_pan, dst16) when it
\* is Short) and changes nothing else; dissected again it changes nothing.
C8_DisassocClosesDestination ==
    [][(IsDissect(last') /\ last'.sub = "disassoc")
        => LET f == last'.frame
               r == IF f.dst_addr_mode = IEEE802154_FCF_ADDR_EXT
                    THEN g_hash_table_lookup(long_table, packet_dst64(f))
                    ELSE IF f.dst_addr_mode = IEEE802154_FCF_ADDR_SHORT
                         THEN g_hash_table_lookup(short_table,
                                  ieee802154e_short_addr(packet_dst_pan(f), packet_dst16(f)))
                         ELSE NULL
           IN  IF last'.visited \/ r = NULL
               THEN MapUnchanged
               ELSE /\ recs' = [recs EXCEPT ![r].end_fnum = last'.fnum]
                    /\ UNCHANGED <<rec_key, short_table, long_table>>]_vars

\* a first-pass Disassociation Notification to a short address closed a record
C8_DisassocClosedShortDestination ==
    /\ IsDissect(last)
    /\ last.sub = "disassoc"
    /\ ~last.visited
    /\ last.frame.dst_addr_mode = IEEE802154_FCF_ADDR_SHORT
    /\ last.call.fn = "invalidate_short"
    /\ last.call.ret = TRUE
    /\ recs[last.call.found].end_fnum = last.fnum
    /\ \E i \in 1..Len(recs) : i # last.call.found

\* C9: a Coordinator Realignment whose sub-dissector reaches the address
\* table updates the map with (orphan short address, dst_pan) -> dst64
\* exactly when the orphan short address is neither 0xFFFE nor 0xFFFF and
\* the destination mode is Extended; otherwise the map is unchanged.
C9_RealignUpdatesExactlyRealAddress ==
    [][(IsDissect(last') /\ last'.sub = "realign")
        => LET f      == last'.frame
               c      == last'.call
               should == f.short_addr \notin Sentinels
                            /\ f.dst_addr_mode = IEEE802154_FCF_ADDR_EXT
           IN  /\ (c.fn = "update") <=> should
               /\ (c.fn = "update")
                    => (c.short_addr = f.short_addr /\ c.pan = packet_dst_pan(f)
                            /\ c.long_addr = packet_dst64(f))
               /\ ~should => MapUnchanged]_vars

\* The static entries as mappings, and lists that repeat no key.
StaticKey(e) == ieee802154e_short_addr(e.pan, e.addr16)
StaticExt(e) == pntoh64(e.eui64)
NoRepeatedKey(addrs) ==
    \A i, j \in 1..Len(addrs) :
        i # j => (StaticKey(addrs[i]) # StaticKey(addrs[j]) /\ StaticExt(addrs[i]) # StaticExt(addrs[j]))

\* C10 (as stated): after proto_init_ieee802154e the map holds exactly the
\* static mappings, each open and reachable from both tables, and no record
\* learned from frames.
C10_ResetLeavesStaticMappings ==
    (last.op = "init")
        => /\ \A r \in 1..Len(recs) :
                \E i \in 1..Len(static_addrs) :
                    /\ recs[r] = ieee802154e_map_rec(ieee802154e_user, IEEE802154_USER_MAPPING, 0,
                                                     StaticExt(static_addrs[i]))
                    /\ rec_key[r] = StaticKey(static_addrs[i])
           /\ \A i \in 1..Len(static_addrs) :
                LET r == g_hash_table_lookup(short_table, StaticKey(static_addrs[i]))
                IN  /\ r # NULL
                    /\ recs[r] = ieee802154e_map_rec(ieee802154e_user, IEEE802154_USER_MAPPING, 0,
                                                     StaticExt(static_addrs[i]))
                    /\ g_hash_table_lookup(long_table, StaticExt(static_addrs[i])) = r

\* C10 (amended): after proto_init_ieee802154e the map holds no record learned
\* from frames: every record is made from an entry of the static list (label
\* User, start 0, end 0, the entry's key and address), and every entry has
\* such a record.  When the list repeats no short key and no extended address
\* there is exactly one record per entry, in list order, reachable from both
\* tables, and the tables hold nothing else: the map is determined by the list.
C10_ResetLeavesStaticRecords ==
    (last.op = "init")
        => /\ Len(recs) <= Len(static_addrs)
           /\ \A r \in 1..Len(recs) :
                \E i \in 1..Len(static_addrs) :
                    /\ recs[r] = ieee802154e_map_rec(ieee802154e_user, IEEE802154_USER_MAPPING, 0,
                                                     StaticExt(static_addrs[i]))
                    /\ rec_key[r] = StaticKey(static_addrs[i])
           /\ \A i \in 1..Len(static_addrs) :
                \E r \in 1..Len(recs) :
                    /\ recs[r].addr64 = StaticExt(static_addrs[i])
                    /\ rec_key[r] = StaticKey(static_addrs[i])
           /\ NoRepeatedKey(static_addrs)
                => /\ Len(recs) = Len(static_addrs)
                   /\ \A i \in 1..Len(static_addrs) :
                        /\ recs[i].addr64 = StaticExt(static_addrs[i])
                        /\ g_hash_table_lookup(short_table, StaticKey(static_addrs[i])) = i
                        /\ g_hash_table_lookup(long_table, StaticExt(static_addrs[i])) = i
                   /\ DOMAIN short_table = {StaticKey(static_addrs[i]) : i \in 1..Len(static_addrs)}
                   /\ DOMAIN long_table = {StaticExt(static_addrs[i]) : i \in 1..Len(static_addrs)}

\* a capture file with learned mappings was open, and a reset with a static
\* list of two different mappings has run
C10_ResetAfterSession ==
    /\ last.op = "init"
    /\ Len(static_addrs) = 2
    /\ NoRepeatedKey(static_addrs)
    /\ Len(recs) = 2
    /\ last.released > Len(static_addrs)

(***************************************************************************)
(* Properties of the dissection of one frame.                              *)
(***************************************************************************)
IsFrame == last.op = "frame"
Ran(step) == IsFrame /\ \E i \in 1..Len(last.d.steps) : last.d.steps[i] = step
Decrypted == IsFrame /\ last.d.status # "none"

\* MIC length in bytes of a security level: none, 32, 64 or 128 bits
MicBytes(level) == <<0, 4, 8, 16>>[(level % 4) + 1]
\* the payload bytes left once the FCS and the MIC are taken off
PayloadRoom == last.w.reported - last.d.payload_offset - 2 - MicBytes(last.d.packet.security_level)
ExtSrcKnown == last.d.packet.src_addr_mode = IEEE802154_FCF_ADDR_EXT \/ last.e.hint_addr64 # NULL

\* C11: dissect_ieee802154e_decrypt reports the first failing check in the
\* order VersionUnsupported, PacketTooSmall, NoExtSrcAddr, NoKey,
\* DecryptFailed, MicCheckFailed: a frame too small for FCS and MIC gives
\* PacketTooSmall whether or not an extended source address or a key is
\* available, and a missing extended source address is reported before a
\* missing key.
C11_DecryptFirstFailingCheck ==
    Decrypted =>
        LET st == last.d.status
            v  == last.d.packet.version \in {0, 1, 2}
        IN  /\ ~v => st = DECRYPT_VERSION_UNSUPPORTED
            /\ v /\ PayloadRoom < 0 => st = DECRYPT_PACKET_TOO_SMALL
            /\ v /\ PayloadRoom >= 0 /\ ~ExtSrcKnown => st = DECRYPT_PACKET_NO_EXT_SRC_ADDR
            /\ v /\ PayloadRoom >= 0 /\ ExtSrcKnown /\ ~last.e.ieee802154e_key_valid => st = DECRYPT_PACKET_NO_KEY
            /\ st = DECRYPT_PACKET_DECRYPT_FAILED =>
                   v /\ PayloadRoom >= 0 /\ ExtSrcKnown /\ last.e.ieee802154e_key_valid /\ ~last.e.ccm_ctr_encrypt
            /\ st = DECRYPT_PACKET_MIC_CHECK_FAILED =>
                   /\ v /\ PayloadRoom >= 0 /\ ExtSrcKnown /\ last.e.ieee802154e_key_valid
                   /\ ~last.e.ccm_cbc_mac \/ ~last.e.mic_equal

\* a frame with neither extended source address nor key was taken to the
\* decryption and came back with NoExtSrcAddr
C11_NoExtSrcAddrBeforeNoKey ==
    /\ Decrypted
    /\ last.d.status = DECRYPT_PACKET_NO_EXT_SRC_ADDR
    /\ ~last.e.ieee802154e_key_valid
    /\ ~ExtSrcKnown

FatalStatuses ==
    {DECRYPT_VERSION_UNSUPPORTED, DECRYPT_PACKET_TOO_SMALL, DECRYPT_PACKET_NO_EXT_SRC_ADDR,
     DECRYPT_PACKET_NO_KEY, DECRYPT_PACKET_DECRYPT_FAILED}
Encrypting == last.d.packet.security_level >= 4
\* the payload went to the data dissector straight from the status switch
RawFallback ==
    /\ Ran("raw_data")
    /\ \A c \in {"beacon_heuristic", "command", "panid_table", "heuristic", "data_handle"} : ~Ran(c)
\* the sub-dissection of the frame's type was entered
SubDissected ==
    /\ ~Ran("raw_data")
    /\ last.d.packet.frame_type = IEEE802154_FCF_BEACON => Ran("beacon_heuristic")
    /\ last.d.packet.frame_type = IEEE802154_FCF_CMD => Ran("command")
    /\ last.d.packet.frame_type = IEEE802154_FCF_DATA =>
          IF last.d.fcs_ok /\ PayloadRoom > 0 THEN Ran("panid_table") ELSE Ran("data_handle")

MicCaptured == last.w.reported - 2 <= last.w.captured

\* C13: the MIC is verified only when all its M bytes lie inside the
\* captured data: when the capture cut the MIC, the decryption never
\* returns MicCheckFailed, and the status is Succeeded once the version,
\* length, source address and key checks pass and the cipher works.
C13_TruncatedMicNotVerified ==
    Decrypted /\ ~MicCaptured =>
        /\ last.d.status # DECRYPT_PACKET_MIC_CHECK_FAILED
        /\ (/\ last.d.packet.version \in {0, 1, 2}
            /\ PayloadRoom >= 0
            /\ ExtSrcKnown
            /\ last.e.ieee802154e_key_valid
            /\ last.e.ccm_ctr_encrypt) => last.d.status = DECRYPT_PACKET_SUCCEEDED

\* a frame whose MIC was cut by the capture and would not have verified
\* came back from the decryption with Succeeded
C13_TruncatedMicSucceeded ==
    /\ Decrypted
    /\ ~MicCaptured
    /\ MicBytes(last.d.packet.security_level) > 0
    /\ last.w.captured > last.w.reported - 2 - MicBytes(last.d.packet.security_level)
    /\ ~last.e.mic_equal
    /\ last.d.status = DECRYPT_PACKET_SUCCEEDED

LastStep == last.d.steps[Len(last.d.steps)]
PassedAddressing == IsFrame /\ last.d.addressed
ReachedPayload == Ran("decrypt") \/ Ran("plaintext")
SubDissectorRaised == ReachedPayload /\ Ran("throw")
\* the FCS is finalized once, as the last step, and nothing is raised to
\* the caller; an exception of a sub-dissector has been shown
FinalizedLast ==
    /\ ~last.d.raised
    /\ LastStep = "fcs"
    /\ \A i \in 1..(Len(last.d.steps) - 1) : last.d.steps[i] # "fcs"
    /\ Ran("throw") => Ran("show_exception")

FcsTruncated == IsFrame /\ last.w.captured < last.w.reported
\* the frame is marked as having a bad FCS
MarkedBadFcs ==
    \/ last.d.bad_fcs_note
    \/ "ei_ieee802154e_fcs" \in last.d.expert
    \/ last.d.fcs_field \in {"Bad", "Incorrect"}
\* a Data frame whose payload reached the sub-dissection of Data frames
DataPayloadDispatched ==
    /\ ReachedPayload
    /\ last.d.packet.frame_type = IEEE802154_FCF_DATA
    /\ ~Ran("raw_data")
    /\ PayloadRoom > 0

\* C15: when the last 2 bytes of the reported length are not inside the
\* captured data, the FCS correctness is reported as unknown: the frame is
\* never marked "Bad FCS", no bad-FCS warning is added, and the
\* sub-dissection of a Data frame is not suppressed by the preference that
\* requires a valid FCS.
C15_TruncatedFcsIsUnknown ==
    FcsTruncated =>
        /\ ~MarkedBadFcs
        /\ Ran("fcs") /\ last.e.tree => last.d.fcs_field = "Unknown"
        /\ DataPayloadDispatched => Ran("panid_table")

\* a Data frame cut inside its FCS, whose FCS bytes would not have matched,
\* with the preference set: shown as unknown and handed to the PANID table
C15_TruncatedFcsDataDispatched ==
    /\ FcsTruncated
    /\ ~last.w.crc_matches
    /\ last.e.ieee802154e_fcs_ok
    /\ last.d.packet.frame_type = IEEE802154_FCF_DATA
    /\ last.d.fcs_field = "Unknown"
    /\ Ran("panid_table")

\* the FCS bytes are in the captured data and are not those of a valid FCS
FcsInvalid ==
    /\ IsFrame
    /\ last.w.captured = last.w.reported
    /\ IF last.e.cc24xx THEN ~last.w.cc24xx_crc_ok ELSE ~last.w.crc_matches
BadFcsWarned == last.d.bad_fcs_note /\ "ei_ieee802154e_fcs" \in last.d.expert
\* the same frame with a valid FCS
ValidTwin == [last.w EXCEPT !.crc_matches = TRUE, !.cc24xx_crc_ok = TRUE]
\* the calls made for the payload are those made for the same frame with a
\* valid FCS
DispatchedAsValid == last.d.steps = Dissection(ValidTwin, last.e).steps
\* the payload of a Data frame went to the data dissector only
RawDataOnly == Ran("data_handle") /\ ~Ran("panid_table") /\ ~Ran("heuristic")
FcsStopsDispatch == DataPayloadDispatched /\ last.e.ieee802154e_fcs_ok

\* an invalid FCS changes the dispatch only for Data frames and only when a
\* valid FCS is required
DispatchRule ==
    /\ FcsStopsDispatch => RawDataOnly
    /\ ~FcsStopsDispatch => DispatchedAsValid

FcfDstMode == (last.w.fcf \div 1024) % 4
FcfSrcMode == (last.w.fcf \div 16384) % 4
FcfVersion == (last.w.fcf \div 4096) % 4
FcfSecurity == (last.w.fcf \div 8) % 2 = 1
FcfIntraPan == (last.w.fcf \div 64) % 2 = 1
FcfSeqnoBit == (last.w.fcf \div 256) % 2 = 1
ReservedMode(mode) == mode \notin {0, 2, 3}
HeaderSteps == {"fcf", "seqno", "dst_pan", "dst16", "dst64", "src_pan"}
\* what was decoded before the abort is in the packet structure
DecodedFieldsKept ==
    /\ Ran("fcf")
    /\ Ran("seqno") => last.d.packet.seqno = last.w.seqno
    /\ ~ReservedMode(FcfDstMode) /\ FcfDstMode # 0 =>
          /\ Ran("dst_pan") /\ last.d.packet.dst_pan = last.w.dst_pan
          /\ IF FcfDstMode = 2 THEN Ran("dst16") /\ last.d.packet.dst16 = last.w.dst_addr
                               ELSE Ran("dst64") /\ last.d.packet.dst64 = last.w.dst_addr

\* C17: if the destination or the source addressing mode of the FCF is the
\* reserved value, the dissection of the frame aborts at that point with
\* an invalid-addressing annotation: the fields decoded before it are kept,
\* and no auxiliary security header decode, decryption, sub-dissection or
\* Address Map update is performed for the frame (nor any step behind the
\* addressing fields).
C17_ReservedModeAborts ==
    IsFrame /\ (ReservedMode(FcfDstMode) \/ ReservedMode(FcfSrcMode)) =>
        /\ LastStep = "abort"
        /\ ~last.d.raised
        /\ ~last.d.addressed
        /\ last.d.expert = {IF ReservedMode(FcfDstMode) THEN "ei_ieee802154e_dst" ELSE "ei_ieee802154e_src"}
        /\ \A i \in 1..(Len(last.d.steps) - 1) : last.d.steps[i] \in HeaderSteps
        /\ DecodedFieldsKept
        /\ last.d.status = "none"

\* a secured Command frame with a valid destination and the reserved source
\* mode was aborted behind the destination address
C17_ReservedSourceAborted ==
    /\ IsFrame
    /\ ReservedMode(FcfSrcMode)
    /\ FcfDstMode = 2
    /\ FcfSecurity
    /\ last.w.fcf % 8 = IEEE802154_FCF_CMD
    /\ LastStep = "abort"
    /\ Ran("dst16")

ValidModes == ~ReservedMode(FcfDstMode) /\ ~ReservedMode(FcfSrcMode)
SrcPanInFrame == FcfSrcMode \in {2, 3} /\ (FcfDstMode = 0 \/ ~FcfIntraPan)

\* C18: for every FCF value with valid addressing modes, the 2-byte source
\* PAN is read from the frame iff the source mode is Short or Extended and
\* (the destination mode is None or intra_pan is unset); otherwise src_pan
\* equals dst_pan when destination addressing is present and the broadcast
\* PAN 0xFFFF when it is not.
C18_SourcePanRule ==
    IsFrame /\ ValidModes =>
        /\ last.d.addressed
        /\ Ran("src_pan") <=> SrcPanInFrame
        /\ SrcPanInFrame => last.d.packet.src_pan = last.w.src_pan
        /\ ~SrcPanInFrame /\ FcfDstMode # 0 =>
              last.d.packet.src_pan = last.w.dst_pan /\ last.d.packet.dst_pan = last.w.dst_pan
        /\ ~SrcPanInFrame /\ FcfDstMode = 0 => last.d.packet.src_pan = 65535

\* a frame with destination mode None, source mode Short and the intra-PAN
\* flag set took its source PAN from the header
C18_NoDestinationShortSource ==
    /\ IsFrame
    /\ FcfDstMode = 0
    /\ FcfSrcMode = 2
    /\ FcfIntraPan
    /\ Ran("src_pan")
    /\ last.d.packet.src_pan = last.w.src_pan

\* C19: the 1-byte sequence number is read, and the cursor advanced by 1,
\* unless the sequence number suppression flag is set, and the flag is
\* honoured only for frame versions 2006 and later: a version-2003 frame
\* always has its sequence number read, whatever the FCF bit that later
\* versions use for the suppression.
C19_SuppressionOnlyFrom2006 ==
    IsFrame =>
        LET suppressed == FcfSeqnoBit /\ FcfVersion >= 1
        IN  /\ ~suppressed => Ran("seqno") /\ last.d.seqno_length = 1 /\ last.d.packet.seqno = last.w.seqno
            /\ suppressed => ~Ran("seqno") /\ last.d.seqno_length = 0

\* the fields of the security control byte as the standard lays them out
CtlLevel == last.w.security_control % 8
CtlKeyIdMode == (last.w.security_control \div 8) % 4
\* bytes of the key identifier field: implicit, key index, explicit-4,
\* explicit-8
KeyIdBytes == <<0, 1, 5, 9>>[CtlKeyIdMode + 1]
AuxDecoded == Ran("security_control")

\* C20: the auxiliary security header is decoded exactly when security is
\* enabled and the version is 2006; it then takes 1 byte of security
\* control, 4 bytes of frame counter and a key identifier of 0, 1, 5 or 9
\* bytes for the key id modes implicit, key index, explicit-4, explicit-8
\* (5, 6, 10 or 14 bytes in all); in every other case this step does not
\* move the cursor.
C20_AuxHeaderOnlySecured2006 ==
    IsFrame /\ last.d.addressed /\ ~last.d.raised =>
        /\ AuxDecoded <=> FcfSecurity /\ FcfVersion = 1
        /\ AuxDecoded =>
              /\ last.d.aux_length = 1 + 4 + KeyIdBytes
              /\ last.d.aux_length \in {5, 6, 10, 14}
              /\ last.d.packet.security_level = CtlLevel
              /\ last.d.packet.key_id_mode = CtlKeyIdMode
        /\ ~AuxDecoded => last.d.aux_length = 0

\* a secured 2006 frame with an 8-byte key source had 14 bytes of auxiliary
\* security header decoded
C20_ExplicitKeySource8 ==
    /\ IsFrame
    /\ FcfSecurity
    /\ FcfVersion = 1
    /\ CtlKeyIdMode = 3
    /\ AuxDecoded
    /\ last.d.aux_length = 14

\* the steps of a dissection from the given step on
StepsFrom(steps, step) ==
    IF \E i \in 1..Len(steps) : steps[i] = step
    THEN SubSeq(steps, CHOOSE i \in 1..Len(steps) : steps[i] = step /\ \A j \in 1..(i - 1) : steps[j] # step, Len(steps))
    ELSE <<>>

InvalidAddressingNoted == "ei_ieee802154e_invalid_addressing" \in last.d.expert

\* for each command identifier, an addressing its check accepts
ValidAddressingOf ==
    [c \in CommandIds |->
        CHOOSE a \in CommandAddressings :
            CmdAddressingValid(Dissection(CommandWire(a, c, "unclaimed", TRUE), DefaultEnv).packet)]

\* the same command, body, checksum and preferences under valid addressing
ValidAddressingTwin ==
    Dissection(CommandWire(ValidAddressingOf[last.w.command_id], last.w.command_id, last.w.payload, last.w.crc_matches), last.e)

CommandAddressingViolated ==
    IsFrame /\ Ran("command") /\ ~CmdAddressingValid(last.d.packet)

\* C21: a command frame whose addressing violates the rule of its command
\* identifier only gets the invalid-addressing annotation: the command is
\* parsed by the same calls as under valid addressing (the body parser of the
\* identifier included), no exception leaves the dissector, and the
\* dissection ends with the FCS finalization.
C21_InvalidCommandAddressingOnlyWarns ==
    CommandAddressingViolated =>
        /\ InvalidAddressingNoted
        /\ StepsFrom(last.d.steps, "command") = StepsFrom(ValidAddressingTwin.steps, "command")
        /\ CommandBodyParser(last.d.packet.command_id) \in {"assoc_req", "assoc_rsp", "disassoc", "realign", "gtsreq"} => Ran(CommandBodyParser(last.d.packet.command_id))
        /\ ~last.d.raised
        /\ LastStep = "fcs"

\* C21 witness: an Association Request from a 16-bit source address is
\* annotated, parsed by the Association Request parser and finalized.
C21_AssocReqFromShortSource ==
    /\ CommandAddressingViolated
    /\ last.d.packet.command_id = IEEE802154_CMD_ASRQ
    /\ last.d.packet.src_addr_mode = IEEE802154_FCF_ADDR_SHORT
    /\ InvalidAddressingNoted
    /\ Ran("assoc_req")
    /\ LastStep = "fcs"

(***************************************************************************)
(* Properties of ccm_init_block.                                           *)
(***************************************************************************)
IsBlock == last.op = "ccm_init_block"

\* byte i of the block, counted from 0 as in the source
BlockByte(i) == last.block[i + 1]

\* the 16-bit value held most significant byte first in bytes i and i + 1
BigEndian16(i) == BlockByte(i) * 256 + BlockByte(i + 1)

ExpectedFlags ==
    1 + (IF last.in.M = 4 THEN 8 ELSE IF last.in.M = 8 THEN 24 ELSE IF last.in.M = 16 THEN 56 ELSE 0)
      + (IF last.in.adata THEN 64 ELSE 0)

\* C22: the CCM* initial block has 16 bytes; byte 0 is 1 plus (M-2)/2 in
\* bits 3-5 when M > 0 plus bit 6 when Adata is set; bytes 1-8 hold the
\* extended source address and bytes 9-12 the frame counter, most
\* significant byte first; byte 13 is the key sequence counter for version
\* 2003 and the security level otherwise; bytes 14-15 hold the counter
\* value most significant byte first.
C22_CcmInitialBlockLayout ==
    IsBlock =>
        /\ Len(last.block) = 16
        /\ \A i \in 0..15 : BlockByte(i) \in 0..255
        /\ BlockByte(0) = ExpectedFlags
        /\ \A k \in 1..4 : BigEndian16(2 * k - 1) = last.in.addr[k]
        /\ \A k \in 1..2 : BigEndian16(7 + 2 * k) = last.in.packet.frame_counter[k]
        /\ BlockByte(13) = (IF last.in.packet.version = IEEE802154_VERSION_2003
                            THEN last.in.packet.key_sequence_counter
                            ELSE last.in.packet.security_level)
        /\ BigEndian16(14) = last.in.ctr_val

\* C22 witness: the authentication block of a 2003 frame with an 8-byte MIC:
\* flags 0x59, the address and the frame counter with distinct bytes in
\* order, the key sequence counter (not the security level) in byte 13.
C22_AuthBlock2003 ==
    /\ IsBlock
    /\ last.in.adata /\ last.in.M = 8
    /\ last.in.packet.version = IEEE802154_VERSION_2003
    /\ last.in.packet.key_sequence_counter # last.in.packet.security_level
    /\ last.in.ctr_val = 4660
    /\ last.block = <<89, 1, 2, 3, 4, 5, 6, 7, 8, 1, 2, 3, 4, 90, 18, 52>>

(***************************************************************************)
(* Properties of the MIC verification lengths.                             *)
(***************************************************************************)
MicVerified == Decrypted /\ last.d.mic_lengths # <<>>
l_m == last.d.mic_lengths[1].l_m
l_a == last.d.mic_lengths[1].l_a
CountersLeftOut == last.d.packet.version = IEEE802154_VERSION_2003 /\ ~last.e.ieee802154e_extend_auth

\* C23: when the MIC is verified, a non-encrypting security level gives
\* l_m = 0 and l_a = payload offset + captured payload length; an encrypting
\* level gives l_m = captured payload length and l_a = payload offset, less
\* exactly 5 only for a 2003 frame with the extended-authentication option
\* off; l_a is never negative.  (The MIC lies in the captured data, so the
\* captured payload is all that lies between the payload offset and the MIC.)
C23_MicVerificationLengths ==
    MicVerified =>
        /\ ~Encrypting => l_m = 0 /\ l_a = last.d.payload_offset + PayloadRoom
        /\ Encrypting => l_m = PayloadRoom
        /\ Encrypting /\ CountersLeftOut => l_a = last.d.payload_offset - 5
        /\ Encrypting /\ ~CountersLeftOut => l_a = last.d.payload_offset
        /\ l_a >= 0
        /\ l_m >= 0

\* C23 witness: an encrypted 2003 frame verified with the option off: l_a is
\* the payload offset less the five counter bytes, and l_m the payload.
C23_Encrypted2003CountersLeftOut ==
    /\ MicVerified
    /\ Encrypting
    /\ CountersLeftOut
    /\ Ran("sec_key_sequence_counter")
    /\ l_a = last.d.payload_offset - 5
    /\ l_m = PayloadRoom /\ l_m > 0

(***************************************************************************)
(* Properties of the dispatch of a Data payload.                           *)
(***************************************************************************)
\* the Data frame passed the sanity check: the PANID table is tried
DataEligible == IsFrame /\ last.d.packet.frame_type = IEEE802154_FCF_DATA /\ Ran("panid_table")

\* a dissector registered for the PANID accepts the payload
PanidAccepts(pan) == pan \in last.e.panid_registered /\ last.w.payload = "panid"

DstPanDiffers ==
    /\ last.d.packet.dst_addr_mode \in {IEEE802154_FCF_ADDR_SHORT, IEEE802154_FCF_ADDR_EXT}
    /\ last.d.packet.dst_pan # last.d.packet.src_pan

ExpectedPanidKeys ==
    IF PanidAccepts(last.d.packet.src_pan) \/ ~DstPanDiffers
    THEN <<last.d.packet.src_pan>>
    ELSE <<last.d.packet.src_pan, last.d.packet.dst_pan>>

ExpectedDispatch ==
    [i \in 1..Len(ExpectedPanidKeys) |-> "panid_table"]
    \o (IF PanidAccepts(ExpectedPanidKeys[Len(ExpectedPanidKeys)]) THEN <<>>
        ELSE IF last.w.payload = "heuristic" THEN <<"heuristic">>
        ELSE <<"heuristic", "data_handle">>)

\* C24: for a Data frame eligible for sub-dissection the handlers are tried
\* in the order PANID table under the source PANID, PANID table under the
\* destination PANID (when destination addressing is present and the two
\* PANIDs differ), heuristic list, data dissector, and the first handler
\* that accepts the payload ends the dispatch.  (Stated for payloads on
\* which no handler raises an exception.)
C24_DataDispatchOrder ==
    DataEligible /\ ~SubDissectorRaised =>
        /\ last.d.panid_keys = ExpectedPanidKeys
        /\ StepsFrom(last.d.steps, "panid_table") = ExpectedDispatch \o <<"fcs">>

(***************************************************************************)
(* Properties of the Address Map over a session.                           *)
(***************************************************************************)
\* C25: after ieee802154e_addr_update(short, pan, ext, label, n) returns,
\* the record found under the short key (pan, short) is open (end index 0)
\* and has the extended address ext, also when the record of the key had
\* that address already and was closed by an earlier invalidate.
C25_UpdateLeavesOpenMapping ==
    IsUpdate(last)
        => LET r == g_hash_table_lookup(short_table, CallKey(last.call))
           IN  /\ r # NULL
               /\ recs[r].end_fnum = 0
               /\ recs[r].addr64 = last.call.long_addr

\* the validity window of a closed record is well formed
WindowWellFormed(rec) == rec.end_fnum # 0 => rec.start_fnum <= rec.end_fnum

\* C26: while the frames of a capture are dissected in order, with
\* re-dissections of earlier frames in between, every closed record has
\* start index <= end index, and the end index of a record, once set to a
\* non-zero value, is never changed again.
C26_ValidityWindowsWellFormedAndFinal ==
    [][IsDissect(last')
        => /\ \A r \in 1..Len(recs') : WindowWellFormed(recs'[r])
           /\ \A r \in 1..Len(recs) :
                recs[r].end_fnum # 0 => recs'[r].end_fnum = recs[r].end_fnum]_vars

\* the frame was dissected for the first time and got a hint
HintAttached(l) == IsDissect(l) /\ ~l.visited /\ l.hint # NULL

\* C27: the Address Map record attached as hint on the first pass of a
\* frame with a Short, non-broadcast source address is valid at that frame:
\* a record that an earlier frame closed (end index non-zero) is never
\* attached.
C27_HintIsValidAtFrame ==
    [][HintAttached(last') => recs[last'.hint].end_fnum = 0]_vars

\* C28: every record created from a frame maps to an extended address
\* carried in that frame's destination address field: a frame whose
\* destination addressing mode is not Extended creates no record, and no
\* record learned from a frame has the unset extended address 0.
C28_LearnedAddressCarriedInFrame ==
    [][IsDissect(last')
        => \A r \in (Len(recs) + 1)..Len(recs') :
              /\ last'.frame.dst_addr_mode = IEEE802154_FCF_ADDR_EXT
              /\ recs'[r].addr64 = last'.frame.dst_addr
              /\ recs'[r].addr64 # 0]_vars

\* C29: with the valid-FCS requirement set, a frame whose FCS check fails
\* leaves the Address Map unchanged: the sub-dissectors of the Association
\* Response, the Disassociation Notification and the Coordinator
\* Realignment are not run on it.
C29_BadFcsLeavesMapUnchanged ==
    [][(IsDissect(last') /\ ~last'.frame.fcs_ok)
        => /\ MapUnchanged
           /\ last'.sub \notin {"assoc_rsp", "disassoc", "realign"}]_vars

(***************************************************************************)
(* Properties of the security fields used by the decryption.               *)
(***************************************************************************)
\* the decryption went past its version check
PastVersionGate == Decrypted /\ last.d.status # DECRYPT_VERSION_UNSUPPORTED

\* the security level and the frame counter come from the frame's auxiliary
\* security header, or the level from the configured 2003 security suite
SecurityFieldsDecoded ==
    \/ Ran("security_control") /\ Ran("frame_counter")
    \/ /\ last.d.packet.version = IEEE802154_VERSION_2003
       /\ last.d.packet.security_level = last.e.ieee802154e_sec_suite

\* C30: when the decryption of a security-enabled frame goes past the
\* version gate (versions 2003, 2006, 2012), the security fields it uses
\* were decoded from the frame or taken from the configured 2003 suite, and
\* a security-enabled 2012 frame is not reported as Succeeded with its
\* payload handed on undecrypted.
C30_DecryptUsesDecodedSecurityFields ==
    PastVersionGate =>
        /\ SecurityFieldsDecoded
        /\ ~(/\ last.d.packet.version = IEEE802154_VERSION_2012
             /\ last.d.status = DECRYPT_PACKET_SUCCEEDED)

====
